---- MODULE Spec2Model ----
(***************************************************************************)
(* Model of opencode-plugin-preload-skills: the skill loader, the trigger  *)
(* resolver, the budget filter, the session manager and the hook handlers. *)
(*                                                                         *)
(* Strings that the code inspects character by character (paths, globs,    *)
(* extension keys, keywords, message text) are sequences of one-character  *)
(* strings.  Skill names are compared by equality only, apart from the     *)
(* "@" prefix test, and are atoms.  A rendered text is a sequence of       *)
(* string tokens.                                                          *)
(***************************************************************************)
EXTENDS Integers, Sequences, FiniteSets, TLC

(* ------------------------------ bounds --------------------------------- *)

\* number of entries already in the output list a handler is handed
MaxPriorEntries == 1

\* number of names in a request for skills
MaxRequest == 3

\* number of characters of a path matched against the glob patterns
MaxPath == 4

(* ----------------------------- universe -------------------------------- *)

SessionIds == {"s1", "s2"}

\* the empty session id (falsy in the handlers' guards)
NoSessionId == ""

CallIds == {"call-1"}

None == "<none>"

\* the analytics file that has not been written yet (a map, as the written file is)
NoFile == [x \in {None} |-> None]

(* --------------------------- sequence helpers -------------------------- *)

\* a Map, or an object, without entries
EmptyMap == [x \in {} |-> None]

Range(s) == {s[i] : i \in DOMAIN s}

Drop(s, k) == SubSeq(s, k + 1, Len(s))

RECURSIVE Flatten(_)
Flatten(ss) == IF ss = <<>> THEN <<>> ELSE Head(ss) \o Flatten(Tail(ss))

RECURSIVE SumTokens(_)
SumTokens(skills) ==
  IF skills = <<>> THEN 0 ELSE Head(skills).tokenCount + SumTokens(Tail(skills))

\* [...new Set(xs)]: first occurrence of every element, in order
RECURSIVE UniqueInOrder(_)
UniqueInOrder(xs) ==
  IF xs = <<>> THEN <<>>
  ELSE LET init == UniqueInOrder(SubSeq(xs, 1, Len(xs) - 1))
           x == xs[Len(xs)]
       IN IF x \in Range(init) THEN init ELSE Append(init, x)

Names(skills) == [i \in DOMAIN skills |-> skills[i].name]

\* String.prototype.includes
Includes(hay, needle) ==
  \E i \in 0..(Len(hay) - Len(needle)) : SubSeq(hay, i + 1, i + Len(needle)) = needle

ToLowerChar(c) ==
  CASE c = "D" -> "d"
    [] c = "B" -> "b"
    [] c = "S" -> "s"
    [] c = "T" -> "t"
    [] c = "X" -> "x"
    [] c = "Q" -> "q"
    [] c = "L" -> "l"
    [] OTHER -> c

toLowerCase(s) == [i \in DOMAIN s |-> ToLowerChar(s[i])]

(* ------------------------------- utils.ts ------------------------------ *)

TokenDivisor == 4

\* Math.ceil(text.length / 4)
estimateTokens(length) == (length + TokenDivisor - 1) \div TokenDivisor

textContainsKeyword(text, keywords) ==
  \E i \in DOMAIN keywords : Includes(toLowerCase(text), toLowerCase(keywords[i]))

\* markers standing for the \x00...\x00 placeholders
Placeholder ==
  [ DOUBLESTARSLASH |-> "\\0DOUBLESTARSLASH\\0",
    DOUBLESTAR |-> "\\0DOUBLESTAR\\0",
    SINGLESTAR |-> "\\0SINGLESTAR\\0",
    QUESTION |-> "\\0QUESTION\\0" ]

\* String.prototype.replace with a global literal pattern: leftmost,
\* non-overlapping occurrences of `pat` become the single token `tok`
RECURSIVE ReplaceAll(_, _, _)
ReplaceAll(s, pat, tok) ==
  IF Len(s) < Len(pat) THEN s
  ELSE IF SubSeq(s, 1, Len(pat)) = pat
       THEN <<tok>> \o ReplaceAll(Drop(s, Len(pat)), pat, tok)
       ELSE <<s[1]>> \o ReplaceAll(Tail(s), pat, tok)

\* the pattern after the four placeholder passes; every other character is
\* escaped and so stands for itself in the regular expression
GlobTokens(pattern) ==
  ReplaceAll(
    ReplaceAll(
      ReplaceAll(
        ReplaceAll(pattern, <<"*", "*", "/">>, Placeholder.DOUBLESTARSLASH),
        <<"*", "*">>, Placeholder.DOUBLESTAR),
      <<"*">>, Placeholder.SINGLESTAR),
    <<"?">>, Placeholder.QUESTION)

\* variant: the run a single star stands for may hold slashes
NoSlash_Any(p) == TRUE

NoSlash(p) == \A i \in DOMAIN p : p[i] # "/"

\* p is matched by (?:[^/]+/)*
IsSegments(p) ==
  \/ p = <<>>
  \/ /\ p[Len(p)] = "/"
     /\ p[1] # "/"
     /\ \A i \in 1..(Len(p) - 1) : ~(p[i] = "/" /\ p[i + 1] = "/")

\* the anchored regular expression ^tokens$ matches path
RECURSIVE RegexMatch(_, _)
RegexMatch(toks, path) ==
  IF toks = <<>> THEN path = <<>>
  ELSE LET t == Head(toks)
           rest == Tail(toks)
       IN CASE t = Placeholder.DOUBLESTARSLASH ->
                 \E k \in 0..Len(path) :
                   IsSegments(SubSeq(path, 1, k)) /\ RegexMatch(rest, Drop(path, k))
            [] t = Placeholder.DOUBLESTAR ->
                 \E k \in 0..Len(path) : RegexMatch(rest, Drop(path, k))
            [] t = Placeholder.SINGLESTAR ->
                 \E k \in 0..Len(path) :
                   NoSlash(SubSeq(path, 1, k)) /\ RegexMatch(rest, Drop(path, k))
            [] t = Placeholder.QUESTION ->
                 path # <<>> /\ path[1] # "/" /\ RegexMatch(rest, Tail(path))
            [] OTHER ->
                 path # <<>> /\ path[1] = t /\ RegexMatch(rest, Tail(path))

matchGlobPattern(filePath, pattern) == RegexMatch(GlobTokens(pattern), filePath)

\* node:path extname: from the last "." of the last path segment, "" when
\* there is none or when it is the segment's first character
LastIndexOf(s, c) ==
  IF \E i \in DOMAIN s : s[i] = c
  THEN CHOOSE i \in DOMAIN s : s[i] = c /\ \A j \in DOMAIN s : s[j] = c => j <= i
  ELSE 0

extname(filePath) ==
  LET base == Drop(filePath, LastIndexOf(filePath, "/"))
      dot == LastIndexOf(base, ".")
  IN IF dot <= 1 THEN <<>> ELSE Drop(base, dot - 1)

(* ------------------------- the world outside --------------------------- *)

\* skill directories that hold a readable SKILL.md under the search paths:
\* the name its frontmatter declares ("" when it declares none), its content
\* and the content's length.  Directory d declares the name of directory c.
SkillFiles ==
  [ a   |-> [fmName |-> "",    content |-> "Body-a",   length |-> 4],
    c   |-> [fmName |-> "c",   content |-> "Body-c",   length |-> 7],
    d   |-> [fmName |-> "c",   content |-> "Body-d",   length |-> 2],
    big |-> [fmName |-> "big", content |-> "Body-big", length |-> 13] ]

\* skill directories whose SKILL.md exists and cannot be read
Unreadable == {"locked"}

\* names that begin with "@", with the rest of the name (name.slice(1))
AtNames ==
  ("@g" :> "g") @@ ("@h" :> "h") @@ ("@nogroup" :> "nogroup") @@ ("@constructor" :> "constructor")

\* files under the project root, and the variables of the process environment
ProjectFiles == {"tsconfig.json"}

ProcessEnv == ("CI" :> "1") @@ ("EMPTY" :> "")

\* dependencies of package.json (all three maps merged)
PackageDeps == ("react" :> "18") @@ ("blank" :> "")

\* the directories a condition is checked in: the project's, one without
\* package.json, one whose package.json is not JSON
ProjectDir == "proj"

Projects ==
  [ proj   |-> [files |-> ProjectFiles, package |-> "parsed", deps |-> PackageDeps],
    nopkg  |-> [files |-> {}, package |-> "absent", deps |-> EmptyMap],
    badpkg |-> [files |-> ProjectFiles, package |-> "invalid", deps |-> EmptyMap] ]

(* --------------------------- skills/loader.ts -------------------------- *)

VARIABLE
  edited             \* the skill directories whose SKILL.md was rewritten after startup

\* what the rewritten files hold
EditedFiles ==
  [ a |-> [fmName |-> "", content |-> "Body-a-v2", length |-> 9] ]

\* the SKILL.md of a directory as readFileSync finds it
ReadSkillFile(dir) == IF dir \in edited THEN EditedFiles[dir] ELSE SkillFiles[dir]

findSkillFile(skillName) ==
  IF skillName \in DOMAIN SkillFiles \cup Unreadable THEN skillName ELSE None

\* the ParsedSkill of a directory, None when there is no file and when
\* readFileSync throws (the catch block returns null)
loadSkill(skillName) ==
  LET filePath == findSkillFile(skillName) IN
  IF filePath = None \/ filePath \in Unreadable THEN None
  ELSE LET f == ReadSkillFile(filePath) IN
       [ name |-> IF f.fmName # "" THEN f.fmName ELSE skillName,
         content |-> f.content,
         filePath |-> filePath,
         tokenCount |-> estimateTokens(f.length) ]

\* loadSkill yields a skill exactly for the directories of SkillFiles
RECURSIVE loadSkills(_)
loadSkills(skillNames) ==
  IF skillNames = <<>> THEN <<>>
  ELSE IF Head(skillNames) \notin DOMAIN SkillFiles THEN loadSkills(Tail(skillNames))
  ELSE <<loadSkill(Head(skillNames))>> \o loadSkills(Tail(skillNames))

\* one <preloaded-skill> element (summaries and minification are off)
SkillPart(skill) ==
  <<"<preloaded-skill name=", skill.name, ">", "\n", skill.content, "\n", "</preloaded-skill>">>

RECURSIVE JoinParts(_, _)
JoinParts(parts, sep) ==
  IF parts = <<>> THEN <<>>
  ELSE IF Len(parts) = 1 THEN parts[1]
  ELSE parts[1] \o sep \o JoinParts(Tail(parts), sep)

formatSkillsForInjection(skills) ==
  IF skills = <<>> THEN <<>>
  ELSE <<"<preloaded-skills>", "\n", "The following skills have been automatically loaded for this session:", "\n\n">>
       \o JoinParts([i \in DOMAIN skills |-> SkillPart(skills[i])], <<"\n\n">>)
       \o <<"\n", "</preloaded-skills>">>

calculateTotalTokens(skills) == SumTokens(skills)

RECURSIVE FilterLoop(_, _, _, _)
FilterLoop(skills, maxTokens, result, totalTokens) ==
  IF skills = <<>> THEN result
  ELSE LET skill == Head(skills) IN
       IF totalTokens + skill.tokenCount <= maxTokens
       THEN FilterLoop(Tail(skills), maxTokens, Append(result, skill),
                       totalTokens + skill.tokenCount)
       ELSE FilterLoop(Tail(skills), maxTokens, result, totalTokens)

filterSkillsByTokenBudget(skills, maxTokens) == FilterLoop(skills, maxTokens, <<>>, 0)

(* -------------------------- skills/resolver.ts ------------------------- *)

\* a Record<string, string[]> is the sequence of its entries, in key order
HasKey(map, key) == \E i \in DOMAIN map : map[i].key = key

GetKey(map, key) == map[CHOOSE i \in DOMAIN map : map[i].key = key].value

\* pattern.split(",").map(e => e.trim().toLowerCase())
RECURSIVE SplitComma(_)
SplitComma(s) ==
  IF \E i \in DOMAIN s : s[i] = ","
  THEN LET i == CHOOSE k \in DOMAIN s : s[k] = "," /\ \A j \in 1..(k - 1) : s[j] # ","
       IN <<SubSeq(s, 1, i - 1)>> \o SplitComma(Drop(s, i))
  ELSE <<s>>

RECURSIVE trim(_)
trim(s) ==
  IF s = <<>> THEN s
  ELSE IF s[1] = " " THEN trim(Tail(s))
  ELSE IF s[Len(s)] = " " THEN trim(SubSeq(s, 1, Len(s) - 1))
  ELSE s

KeyExtensions_NoTrim(pattern) ==
  LET parts == SplitComma(pattern) IN [i \in DOMAIN parts |-> toLowerCase(parts[i])]

KeyExtensions(pattern) ==
  LET parts == SplitComma(pattern) IN [i \in DOMAIN parts |-> toLowerCase(trim(parts[i]))]

getSkillsForExtension(ext, fileTypeSkills) ==
  UniqueInOrder(Flatten(
    [i \in DOMAIN fileTypeSkills |->
       IF toLowerCase(ext) \in Range(KeyExtensions(fileTypeSkills[i].key))
       THEN fileTypeSkills[i].value ELSE <<>>]))

getSkillsForPath(filePath, pathPatterns) ==
  UniqueInOrder(Flatten(
    [i \in DOMAIN pathPatterns |->
       IF matchGlobPattern(filePath, pathPatterns[i].key)
       THEN pathPatterns[i].value ELSE <<>>]))

\* what resolveSkillGroups returns when it does not throw
resolveSkillGroups(skillNames, groups) ==
  UniqueInOrder(Flatten(
    [i \in DOMAIN skillNames |->
       LET name == skillNames[i] IN
       IF name \in DOMAIN AtNames /\ HasKey(groups, AtNames[name])
       THEN GetKey(groups, AtNames[name]) ELSE <<name>>]))

\* The groups record is a plain object, so groups[key] also finds what
\* Object.prototype holds under key (constructor, toString, valueOf,
\* hasOwnProperty, ...): a truthy value that is not iterable.
ObjectPrototypeKeys == {"constructor"}

\* whether resolveSkillGroups throws: resolved.push(...groups[key]) is a
\* TypeError when groups[key] is inherited and not a list of members
resolveSkillGroupsThrows(skillNames, groups) ==
  \E i \in DOMAIN skillNames :
    /\ skillNames[i] \in DOMAIN AtNames
    /\ ~HasKey(groups, AtNames[skillNames[i]])
    /\ AtNames[skillNames[i]] \in ObjectPrototypeKeys

(* ------------------------------- config -------------------------------- *)

VARIABLES
  config,            \* the resolved PreloadSkillsConfig, fixed at startup
  sessions,          \* SessionManagerImpl.sessions: session id -> SessionState
  pendingSkills,     \* SessionManagerImpl.pendingSkills: session id -> skills
  analytics,         \* SessionManagerImpl.analytics: session id -> skillUsage
  analyticsFile,     \* content of preload-skills-analytics.json, NoFile before the first write
  diskWritable,      \* whether writing preload-skills-analytics.json succeeds
  pendingFilePaths,  \* SessionManagerImpl.pendingFilePaths: call id -> path
  skillCache,        \* SessionManagerImpl.skillCache: skill name -> ParsedSkill
  produced,          \* what the last handler call added to its output, NoOutput when nothing
  queuedTimes,       \* history: per session and name, times appended to the queue since creation
  initialInjections, \* history: per session, messages given the always-loaded block since the flag was last false
  owed,              \* history: per session, skills queued by tool.execute.after and not yet met by a message
  owedLost,          \* history: per session, whether the session was deleted while skills were owed
  applied,           \* the function of the library last applied on its own, with its arguments
  returned           \* what that application returned

vars == << config, sessions, pendingSkills, analytics, analyticsFile, diskWritable, edited, pendingFilePaths,
           skillCache, produced, queuedTimes, initialInjections, owed, owedLost,
           applied, returned >>

\* keys of the trigger maps and extensions looked up in them, written
\* character by character
Strings ==
  [ Str_ts |-> <<".", "t", "s">>,
    Key_ts |-> <<".", "T", "S", ",", " ", ".", "t", "s", "x">>,
    Pat_a |-> <<"a", "/", "*", "*">>,
    Kw_db |-> <<"D", "b">>,
    Kw_sql |-> <<"s", "q", "l">>,
    Str_TS |-> <<".", "T", "S">>,
    Str_tsx |-> <<".", "t", "s", "x">>,
    Str_md |-> <<".", "m", "d">>,
    Str_t |-> <<".", "t">>,
    Key_tsmd |-> <<".", "t", "s", ",", ".", "m", "d">>,
    Key_spaced |-> <<" ", ".", "T", "s", " ", ",", " ", ".", "t", "s", "x", " ">>,
    Key_inner |-> <<".", "t", " ", "s">> ]

\* the trigger maps of the configuration file
TriggerMaps ==
  [ fileTypeSkills |-> << [key |-> Strings.Key_ts, value |-> <<"big", "a">>] >>,
    pathPatterns   |-> << [key |-> Strings.Pat_a, value |-> <<"c", "d">>] >>,
    agentSkills    |-> << [key |-> "plan", value |-> <<"@nogroup", "locked", "@g">>] >>,
    contentTriggers |-> << [key |-> Strings.Kw_db, value |-> <<"c">>],
                           [key |-> Strings.Kw_sql, value |-> <<"a">>] >>,
    groups         |-> << [key |-> "g", value |-> <<"a", "c">>] >> ]

NoCheck == ""

\* the always-loaded and the conditional skills of the configuration file
NoInitial == [skills |-> <<>>, conditionalSkills |-> <<>>]

ConditionalInitial ==
  [skills |-> <<"missing">>,
   conditionalSkills |->
     << [skill |-> "a", if |-> [fileExists |-> "tsconfig.json", packageHasDependency |-> NoCheck, envVar |-> NoCheck]],
        [skill |-> "big", if |-> [fileExists |-> NoCheck, packageHasDependency |-> "react", envVar |-> "UNSET"]] >>]

SameNameInitial == [skills |-> <<"c", "d">>, conditionalSkills |-> <<>>]

\* maxTokens is 0 when the file sets none (undefined and 0 are both falsy)
Config(initial, injectionMethod, maxTokens, analytics_, persistAfterCompaction) ==
  [ skills |-> initial.skills,
    conditionalSkills |-> initial.conditionalSkills,
    fileTypeSkills |-> TriggerMaps.fileTypeSkills,
    pathPatterns |-> TriggerMaps.pathPatterns,
    agentSkills |-> TriggerMaps.agentSkills,
    contentTriggers |-> TriggerMaps.contentTriggers,
    groups |-> TriggerMaps.groups,
    injectionMethod |-> injectionMethod,
    maxTokens |-> maxTokens,
    analytics |-> analytics_,
    persistAfterCompaction |-> persistAfterCompaction ]

\* the configurations the plugin is started with
Configs ==
  { Config(NoInitial,          "chatMessage",  0, FALSE, TRUE),
    Config(NoInitial,          "chatMessage",  2, FALSE, TRUE),
    Config(SameNameInitial,    "chatMessage",  2, TRUE,  TRUE),
    Config(ConditionalInitial, "chatMessage",  0, TRUE,  FALSE),
    Config(ConditionalInitial, "chatMessage",  3, FALSE, TRUE),
    Config(SameNameInitial,    "systemPrompt", 0, FALSE, TRUE),
    Config(NoInitial,          "systemPrompt", 2, TRUE,  FALSE),
    Config(ConditionalInitial, "systemPrompt", 3, FALSE, TRUE) }

(* --------------------------- config/loader.ts -------------------------- *)

\* The configuration file is absent, is not JSON, is the JSON value null, or
\* is a JSON object: the map of its keys to values, each with its JSON type.
\* The elements of an array are atoms; NonStrings are the elements that are
\* not JSON strings (the number 42, a missing property).
NonStrings == {"<42>", "<undefined>"}

IsString(v) == v \notin NonStrings

J(type, value) == [type |-> type, value |-> value]

TypeOf(parsed, key) == IF key \in DOMAIN parsed THEN parsed[key].type ELSE "undefined"

DEFAULT_CONFIG ==
  [ skills |-> <<>>,
    fileTypeSkills |-> <<>>,
    agentSkills |-> <<>>,
    pathPatterns |-> <<>>,
    contentTriggers |-> <<>>,
    groups |-> <<>>,
    conditionalSkills |-> <<>>,
    injectionMethod |-> "systemPrompt",
    maxTokens |-> 0,
    enableTools |-> TRUE,
    analytics |-> FALSE,
    persistAfterCompaction |-> TRUE ]

\* a raw object is the sequence of its entries; an entry is kept when its
\* value is an array, and of the array the strings are kept
parseStringArrayRecord(parsed, key) ==
  IF TypeOf(parsed, key) # "object" THEN <<>>
  ELSE LET entries == SelectSeq(parsed[key].value, LAMBDA e : e.value.type = "array")
       IN [i \in DOMAIN entries |->
             [key |-> entries[i].key, value |-> SelectSeq(entries[i].value.value, IsString)]]

\* an item is the type of the item, its skill property and its if property
\* with the type of that property
parseConditionalSkills(parsed, key) ==
  IF TypeOf(parsed, key) # "array" THEN <<>>
  ELSE LET items == SelectSeq(parsed[key].value,
                              LAMBDA item : /\ item.type = "object"
                                            /\ IsString(item.skill)
                                            /\ item.ifType = "object")
       IN [i \in DOMAIN items |-> [skill |-> items[i].skill, if |-> items[i].if]]

\* the property of the partial configuration, when the file's value has the type
Typed(parsed, key, type) ==
  IF TypeOf(parsed, key) = type THEN (key :> parsed[key].value) ELSE EmptyMap

\* variant: any string is taken as the injection method
loadConfigFile_AnyMethod(file) ==
  IF file.kind # "json" THEN EmptyMap
  ELSE LET parsed == file.parsed IN
       [ skills |-> IF TypeOf(parsed, "skills") = "array" THEN parsed.skills.value ELSE <<>>,
         fileTypeSkills |-> parseStringArrayRecord(parsed, "fileTypeSkills"),
         agentSkills |-> parseStringArrayRecord(parsed, "agentSkills"),
         pathPatterns |-> parseStringArrayRecord(parsed, "pathPatterns"),
         contentTriggers |-> parseStringArrayRecord(parsed, "contentTriggers"),
         groups |-> parseStringArrayRecord(parsed, "groups"),
         conditionalSkills |-> parseConditionalSkills(parsed, "conditionalSkills") ]
       @@ Typed(parsed, "maxTokens", "number")
       @@ Typed(parsed, "enableTools", "boolean")
       @@ Typed(parsed, "analytics", "boolean")
       @@ Typed(parsed, "persistAfterCompaction", "boolean")
       @@ (IF TypeOf(parsed, "injectionMethod") = "string"
           THEN ("injectionMethod" :> parsed.injectionMethod.value) ELSE EmptyMap)

\* the partial configuration read from the file
loadConfigFile(file) ==
  IF file.kind # "json" THEN EmptyMap
  ELSE LET parsed == file.parsed IN
       [ skills |-> IF TypeOf(parsed, "skills") = "array" THEN parsed.skills.value ELSE <<>>,
         fileTypeSkills |-> parseStringArrayRecord(parsed, "fileTypeSkills"),
         agentSkills |-> parseStringArrayRecord(parsed, "agentSkills"),
         pathPatterns |-> parseStringArrayRecord(parsed, "pathPatterns"),
         contentTriggers |-> parseStringArrayRecord(parsed, "contentTriggers"),
         groups |-> parseStringArrayRecord(parsed, "groups"),
         conditionalSkills |-> parseConditionalSkills(parsed, "conditionalSkills") ]
       @@ Typed(parsed, "maxTokens", "number")
       @@ Typed(parsed, "enableTools", "boolean")
       @@ Typed(parsed, "analytics", "boolean")
       @@ Typed(parsed, "persistAfterCompaction", "boolean")
       @@ (IF /\ TypeOf(parsed, "injectionMethod") = "string"
              /\ parsed.injectionMethod.value \in {"systemPrompt", "chatMessage"}
           THEN ("injectionMethod" :> parsed.injectionMethod.value) ELSE EmptyMap)

\* { ...defaults, ...partial }
Spread(defaults, partial) ==
  [key \in DOMAIN defaults \cup DOMAIN partial |->
     IF key \in DOMAIN partial THEN partial[key] ELSE defaults[key]]

loadConfig(file) == Spread(DEFAULT_CONFIG, loadConfigFile(file))

(* ------------------------------- utils.ts ------------------------------ *)

checkCondition(condition, projectDir) ==
  /\ condition.fileExists # NoCheck => condition.fileExists \in Projects[projectDir].files
  /\ condition.packageHasDependency # NoCheck =>
       /\ Projects[projectDir].package = "parsed"
       /\ condition.packageHasDependency \in DOMAIN Projects[projectDir].deps
       /\ Projects[projectDir].deps[condition.packageHasDependency] # ""
  /\ condition.envVar # NoCheck =>
       /\ condition.envVar \in DOMAIN ProcessEnv
       /\ ProcessEnv[condition.envVar] # ""

(* ------------------------------- index.ts ------------------------------ *)

resolveConditionalSkills(cfg) ==
  Flatten([i \in DOMAIN cfg.conditionalSkills |->
             IF checkCondition(cfg.conditionalSkills[i].if, ProjectDir)
             THEN <<cfg.conditionalSkills[i].skill>> ELSE <<>>])

allInitialSkillNames(cfg) == cfg.skills \o resolveConditionalSkills(cfg)

initialSkillsOf(cfg) ==
  LET loaded == loadSkills(resolveSkillGroups(allInitialSkillNames(cfg), cfg.groups)) IN
  IF cfg.maxTokens # 0 /\ calculateTotalTokens(loaded) > cfg.maxTokens
  THEN filterSkillsByTokenBudget(loaded, cfg.maxTokens)
  ELSE loaded

initialSkills == initialSkillsOf(config)

initialTokensUsed == calculateTotalTokens(initialSkills)

initialFormattedContent == formatSkillsForInjection(initialSkills)

\* new Set(initialSkills.map(s => s.name)): a Set keeps insertion order and
\* is modelled as a sequence without repetition
initialSkillNames == UniqueInOrder(Names(initialSkills))

\* sessionManager.cacheSkill for every initial skill, in order
RECURSIVE cacheSkills(_, _)
cacheSkills(cache, skills) ==
  IF skills = <<>> THEN cache
  ELSE cacheSkills((Head(skills).name :> Head(skills)) @@ cache, Tail(skills))

\* the names of the initial list that the report of the loaded skills calls missing
missingNames(cfg) ==
  LET loadedNames == Names(initialSkillsOf(cfg)) IN
  SelectSeq(allInitialSkillNames(cfg),
            LAMBDA n : n \notin Range(loadedNames) /\ n \notin DOMAIN AtNames)

hasTriggeredSkills(cfg) ==
  \/ Len(cfg.fileTypeSkills) > 0
  \/ Len(cfg.agentSkills) > 0
  \/ Len(cfg.pathPatterns) > 0
  \/ Len(cfg.contentTriggers) > 0

\* what initialization logs: the report of the loaded skills when there are
\* any, the warning when nothing is configured
InitialLog(cfg) ==
  (IF Len(initialSkillsOf(cfg)) > 0
   THEN << [ level |-> "info", message |-> "Loaded initial skills",
             loaded |-> Names(initialSkillsOf(cfg)),
             tokens |-> calculateTotalTokens(initialSkillsOf(cfg)),
             missing |-> missingNames(cfg) ] >>
   ELSE <<>>)
  \o (IF Len(allInitialSkillNames(cfg)) = 0 /\ ~hasTriggeredSkills(cfg)
      THEN << [ level |-> "warn", message |-> "No skills configured",
                loaded |-> <<>>, tokens |-> 0, missing |-> <<>> ] >>
      ELSE <<>>)

\* hooks/index.ts: the keys of the object createHooks returns
createHooks(cfg) ==
  (IF cfg.injectionMethod = "systemPrompt" THEN {"experimental.chat.system.transform"} ELSE {})
  \cup {"chat.message", "tool.execute.before", "tool.execute.after",
        "experimental.session.compacting", "event"}
  \cup (IF cfg.enableTools # FALSE THEN {"tool"} ELSE {})

\* The plugin function.  name.startsWith in resolveSkillGroups throws a
\* TypeError for a name that is not a string, and the spread of an
\* inherited groups[key] throws one too; the promise is then rejected and
\* nothing has been logged.
PreloadSkillsPlugin(file) ==
  LET cfg == loadConfig(file) IN
  IF \E i \in DOMAIN allInitialSkillNames(cfg) : ~IsString(allInitialSkillNames(cfg)[i])
  THEN [rejected |-> TRUE, config |-> cfg, log |-> <<>>, hooks |-> {}]
  ELSE IF resolveSkillGroupsThrows(allInitialSkillNames(cfg), cfg.groups)
  THEN [rejected |-> TRUE, config |-> cfg, log |-> <<>>, hooks |-> {}]
  ELSE [rejected |-> FALSE, config |-> cfg, log |-> InitialLog(cfg), hooks |-> createHooks(cfg)]

(* --------------------------- session/manager.ts ------------------------ *)

\* variant: the set is replaced by the added element
SetAdd_Replaces(set, x) == <<x>>

\* Set.prototype.add on an insertion-ordered set
SetAdd(set, x) == IF x \in Range(set) THEN set ELSE Append(set, x)

\* variant: every key is removed
Without_All(map, key) == EmptyMap

Without(map, key) == [x \in (DOMAIN map) \ {key} |-> map[x]]

\* the session manager's maps, the analytics file, the log of one handler
\* call, and whether the call has ended in an exception
Store ==
  [ sessions |-> sessions, pendingSkills |-> pendingSkills, analytics |-> analytics,
    analyticsFile |-> analyticsFile, skillCache |-> skillCache, log |-> <<>>,
    thrown |-> FALSE ]

LogEntry(message, sessionId, triggerType, skills) ==
  [message |-> message, sessionId |-> sessionId, triggerType |-> triggerType, skills |-> skills]

\* variant: the state is created with the injected flag set
getState_Injected(st, sessionId) ==
  IF sessionId \in DOMAIN st.sessions THEN st
  ELSE [st EXCEPT !.sessions =
          (sessionId :> [ initialSkillsInjected |-> TRUE,
                          loadedSkills |-> initialSkillNames,
                          totalTokensUsed |-> initialTokensUsed ]) @@ @]

getState(st, sessionId) ==
  IF sessionId \in DOMAIN st.sessions THEN st
  ELSE [st EXCEPT !.sessions =
          (sessionId :> [ initialSkillsInjected |-> FALSE,
                          loadedSkills |-> initialSkillNames,
                          totalTokensUsed |-> initialTokensUsed ]) @@ @]

\* writes the whole in-memory analytics map to the file; when the write
\* throws, the catch block logs a warning
saveAnalytics(st) ==
  IF ~config.analytics THEN st
  ELSE IF diskWritable THEN [st EXCEPT !.analyticsFile = st.analytics]
  ELSE [st EXCEPT !.log = Append(@, LogEntry("Failed to save analytics", NoSessionId, "", <<>>))]

\* variant: the usage is recorded in memory and the file is not rewritten
trackUsage_NoSave(st, sessionId, skillName, triggerType) ==
  IF ~config.analytics THEN st
  ELSE LET data == IF sessionId \in DOMAIN st.analytics THEN st.analytics[sessionId] ELSE EmptyMap
           stats == IF skillName \in DOMAIN data
                    THEN [data[skillName] EXCEPT !.loadCount = @ + 1]
                    ELSE [loadCount |-> 1, triggerType |-> triggerType]
       IN [st EXCEPT !.analytics = (sessionId :> ((skillName :> stats) @@ data)) @@ @]

\* timestamps (firstLoaded, lastLoaded) are left out of the usage record
trackUsage(st, sessionId, skillName, triggerType) ==
  IF ~config.analytics THEN st
  ELSE LET data == IF sessionId \in DOMAIN st.analytics THEN st.analytics[sessionId] ELSE EmptyMap
           stats == IF skillName \in DOMAIN data
                    THEN [data[skillName] EXCEPT !.loadCount = @ + 1]
                    ELSE [loadCount |-> 1, triggerType |-> triggerType]
       IN saveAnalytics([st EXCEPT !.analytics =
                           (sessionId :> ((skillName :> stats) @@ data)) @@ @])

\* variant: the queued skill is not put into the skill cache
RECURSIVE QueueLoop_NoCache(_, _, _, _)
QueueLoop_NoCache(st, sessionId, newSkills, triggerType) ==
  IF newSkills = <<>> THEN st
  ELSE LET skill == Head(newSkills)
           st1 == [st EXCEPT !.sessions[sessionId].loadedSkills = SetAdd(@, skill.name)]
       IN QueueLoop_NoCache(trackUsage(st1, sessionId, skill.name, triggerType),
                            sessionId, Tail(newSkills), triggerType)

\* the loop of queueSkills over the new skills
RECURSIVE QueueLoop(_, _, _, _)
QueueLoop(st, sessionId, newSkills, triggerType) ==
  IF newSkills = <<>> THEN st
  ELSE LET skill == Head(newSkills)
           st1 == [st EXCEPT !.sessions[sessionId].loadedSkills = SetAdd(@, skill.name),
                             !.skillCache = (skill.name :> skill) @@ @]
       IN QueueLoop(trackUsage(st1, sessionId, skill.name, triggerType),
                    sessionId, Tail(newSkills), triggerType)

\* variant: the skills of loaded names are not filtered out
NewSkills_All(state, skills) == skills

NewSkills(state, skills) ==
  SelectSeq(skills, LAMBDA s : s.name \notin Range(state.loadedSkills))

getPendingSkills(st, sessionId) ==
  IF sessionId \in DOMAIN st.pendingSkills THEN st.pendingSkills[sessionId] ELSE <<>>

\* variant: the new skills replace the pending queue
queueSkills_ReplacesPending(st0, sessionId, skills, triggerType) ==
  LET st == getState(st0, sessionId)
      newSkills == NewSkills(st.sessions[sessionId], skills)
  IN IF Len(newSkills) = 0 THEN st
     ELSE LET st1 == QueueLoop(st, sessionId, newSkills, triggerType)
          IN [st1 EXCEPT
                !.sessions[sessionId].totalTokensUsed = @ + SumTokens(newSkills),
                !.pendingSkills = (sessionId :> newSkills) @@ @,
                !.log = Append(@, LogEntry("Queued skills for injection", sessionId,
                                           triggerType, newSkills))]

queueSkills(st0, sessionId, skills, triggerType) ==
  LET st == getState(st0, sessionId)
      newSkills == NewSkills(st.sessions[sessionId], skills)
  IN IF Len(newSkills) = 0 THEN st
     ELSE LET st1 == QueueLoop(st, sessionId, newSkills, triggerType)
          IN [st1 EXCEPT
                !.sessions[sessionId].totalTokensUsed = @ + SumTokens(newSkills),
                !.pendingSkills = (sessionId :> (getPendingSkills(st, sessionId) \o newSkills)) @@ @,
                !.log = Append(@, LogEntry("Queued skills for injection", sessionId,
                                           triggerType, newSkills))]

\* variant: the queue of the session is kept
clearPendingSkills_Keeps(st, sessionId) == st

clearPendingSkills(st, sessionId) ==
  [st EXCEPT !.pendingSkills = Without(@, sessionId)]

RECURSIVE CachedSkills(_, _)
CachedSkills(cache, names) ==
  IF names = <<>> THEN <<>>
  ELSE IF Head(names) \in DOMAIN cache
       THEN <<cache[Head(names)]>> \o CachedSkills(cache, Tail(names))
       ELSE CachedSkills(cache, Tail(names))

getAllLoadedSkills(st, sessionId) ==
  IF sessionId \notin DOMAIN st.sessions THEN <<>>
  ELSE CachedSkills(st.skillCache, st.sessions[sessionId].loadedSkills)

\* variant: the pending queue of the session is kept
cleanup_KeepsPending(st, sessionId) ==
  saveAnalytics(
    [st EXCEPT !.sessions = Without(@, sessionId),
               !.analytics = Without(@, sessionId),
               !.log = Append(@, LogEntry("Cleaned up session state", sessionId, "", <<>>))])

cleanup(st, sessionId) ==
  saveAnalytics(
    [st EXCEPT !.sessions = Without(@, sessionId),
               !.pendingSkills = Without(@, sessionId),
               !.analytics = Without(@, sessionId),
               !.log = Append(@, LogEntry("Cleaned up session state", sessionId, "", <<>>))])

\* variant: the flag is set to true
markInitialSkillsInjected_SetsTrue(st0, sessionId) ==
  LET st == getState(st0, sessionId)
  IN [st EXCEPT !.sessions[sessionId].initialSkillsInjected = TRUE]

\* despite its name it sets the flag to false
markInitialSkillsInjected(st0, sessionId) ==
  LET st == getState(st0, sessionId)
  IN [st EXCEPT !.sessions[sessionId].initialSkillsInjected = FALSE]

(* -------------------------- skills/resolver.ts ------------------------- *)

\* variant: the budget is not reduced by the tokens already used
loadWithBudget_IgnoresUsed(skillNames, currentTokens) ==
  LET skills == loadSkills(resolveSkillGroups(skillNames, config.groups))
  IN IF config.maxTokens # 0
     THEN filterSkillsByTokenBudget(skills, config.maxTokens)
     ELSE skills

loadWithBudget(skillNames, currentTokens) ==
  LET skills == loadSkills(resolveSkillGroups(skillNames, config.groups))
  IN IF config.maxTokens # 0
     THEN filterSkillsByTokenBudget(skills, config.maxTokens - currentTokens)
     ELSE skills

\* a trigger: loadWithBudget with the session's current total, then
\* queueSkills; an exception of resolveGroups ends the handler, so no
\* trigger runs after it
Trigger(st, sessionId, skillNames, triggerType) ==
  IF st.thrown THEN st
  ELSE IF resolveSkillGroupsThrows(skillNames, config.groups) THEN [st EXCEPT !.thrown = TRUE]
  ELSE LET result == loadWithBudget(skillNames, st.sessions[sessionId].totalTokensUsed)
       IN IF Len(result) > 0 THEN queueSkills(st, sessionId, result, triggerType) ELSE st

(* -------------------------- hooks/chat-message.ts ---------------------- *)

Separator == <<"\n\n", "---", "\n\n">>

RECURSIVE ContentTriggers(_, _, _, _)
ContentTriggers(st, sessionId, messageText, entries) ==
  IF entries = <<>> THEN st
  ELSE ContentTriggers(
         IF textContainsKeyword(messageText, <<Head(entries).key>>)
         THEN Trigger(st, sessionId, Head(entries).value, "content")
         ELSE st,
         sessionId, messageText, Tail(entries))

AgentTrigger(st, sessionId, agent) ==
  IF agent # "" /\ HasKey(config.agentSkills, agent)
  THEN Trigger(st, sessionId, GetKey(config.agentSkills, agent), "agent")
  ELSE st

\* variant: the pending block comes before the always-loaded block
ContentToInject_PendingFirst(state, pending) ==
  (IF Len(pending) > 0 /\ Len(formatSkillsForInjection(pending)) > 0
   THEN <<formatSkillsForInjection(pending)>> ELSE <<>>)
  \o (IF ~state.initialSkillsInjected /\ Len(initialFormattedContent) > 0
      THEN <<initialFormattedContent>> ELSE <<>>)

\* the blocks to inject, first the always-loaded one, then the pending one
ContentToInject(state, pending) ==
  (IF ~state.initialSkillsInjected /\ Len(initialFormattedContent) > 0
   THEN <<initialFormattedContent>> ELSE <<>>)
  \o (IF Len(pending) > 0 /\ Len(formatSkillsForInjection(pending)) > 0
      THEN <<formatSkillsForInjection(pending)>> ELSE <<>>)

RewrittenText(contentToInject, text) ==
  IF Len(contentToInject) > 0
  THEN JoinParts(contentToInject, <<"\n\n">>) \o Separator \o text
  ELSE text

\* variant: the injected flag is not set after the always-loaded block
InjectIntoMessage_NoFlag(st, sessionId, text) ==
  LET state == st.sessions[sessionId]
      injectInitial == ~state.initialSkillsInjected /\ Len(initialFormattedContent) > 0
      pending == getPendingSkills(st, sessionId)
      st1 == IF injectInitial
             THEN [st EXCEPT !.log = Append(@, LogEntry("Injected initial preloaded skills",
                                                        sessionId, "", initialSkills))]
             ELSE st
      st2 == IF Len(pending) > 0 THEN clearPendingSkills(st1, sessionId) ELSE st1
  IN [st |-> st2, text |-> RewrittenText(ContentToInject(state, pending), text)]

\* the part of the handler that runs when injectionMethod is not systemPrompt;
\* yields the store and the text of the first text part
InjectIntoMessage(st, sessionId, text) ==
  LET state == st.sessions[sessionId]
      injectInitial == ~state.initialSkillsInjected /\ Len(initialFormattedContent) > 0
      pending == getPendingSkills(st, sessionId)
      st1 == IF injectInitial
             THEN [st EXCEPT !.sessions[sessionId].initialSkillsInjected = TRUE,
                             !.log = Append(@, LogEntry("Injected initial preloaded skills",
                                                        sessionId, "", initialSkills))]
             ELSE st
      st2 == IF Len(pending) > 0
             THEN clearPendingSkills(
                    IF Len(formatSkillsForInjection(pending)) > 0
                    THEN [st1 EXCEPT !.log = Append(@, LogEntry("Injected triggered skills",
                                                                sessionId, "", pending))]
                    ELSE st1,
                    sessionId)
             ELSE st1
  IN [st |-> st2, text |-> RewrittenText(ContentToInject(state, pending), text)]

\* variant: the message is rewritten whatever the injection method
chatMessage_AlwaysInjects(st0, sessionID, agent, hasText, text) ==
  IF sessionID = NoSessionId THEN [st |-> st0, text |-> text]
  ELSE LET st1 == getState(st0, sessionID) IN
       IF ~hasText THEN [st |-> st1, text |-> text]
       ELSE InjectIntoMessage(
              ContentTriggers(AgentTrigger(st1, sessionID, agent), sessionID, text,
                              config.contentTriggers),
              sessionID, text)

\* createChatMessageHook: hasText says whether the parts hold a text part
chatMessage(st0, sessionID, agent, hasText, text) ==
  IF sessionID = NoSessionId THEN [st |-> st0, text |-> text]
  ELSE LET st1 == getState(st0, sessionID) IN
       IF ~hasText THEN [st |-> st1, text |-> text]
       ELSE LET st2 == AgentTrigger(st1, sessionID, agent)
                st3 == ContentTriggers(st2, sessionID, text, config.contentTriggers)
            IN IF config.injectionMethod # "systemPrompt" /\ ~st3.thrown
               THEN InjectIntoMessage(st3, sessionID, text)
               ELSE [st |-> st3, text |-> text]

(* ------------------------- hooks/system-prompt.ts ---------------------- *)

HasName(skills, name) == \E i \in DOMAIN skills : skills[i].name = name

\* push every skill whose name is not yet in the list
RECURSIVE PushNew(_, _)
PushNew(skillsToInject, skills) ==
  IF skills = <<>> THEN skillsToInject
  ELSE PushNew(IF HasName(skillsToInject, Head(skills).name) THEN skillsToInject
               ELSE Append(skillsToInject, Head(skills)),
               Tail(skills))

\* variant: the loaded skills of the session are left out
SkillsToInject_WithoutLoaded(st, sessionID) ==
  PushNew(initialSkills, getPendingSkills(st, sessionID))

SkillsToInject(st, sessionID) ==
  PushNew(PushNew(initialSkills,
                  CachedSkills(st.skillCache, st.sessions[sessionID].loadedSkills)),
          getPendingSkills(st, sessionID))

\* createSystemPromptHook: yields the store and the output.system list
systemPrompt(st0, sessionID, system) ==
  IF sessionID = NoSessionId THEN [st |-> st0, out |-> system]
  ELSE LET st1 == getState(st0, sessionID)
           skillsToInject == SkillsToInject(st1, sessionID)
           st2 == IF Len(getPendingSkills(st1, sessionID)) > 0
                  THEN clearPendingSkills(st1, sessionID) ELSE st1
       IN IF Len(skillsToInject) > 0
          THEN [ st |-> IF ~st2.sessions[sessionID].initialSkillsInjected /\ Len(initialSkills) > 0
                        THEN [st2 EXCEPT !.sessions[sessionID].initialSkillsInjected = TRUE,
                                         !.log = Append(@, LogEntry("Injected skills into system prompt",
                                                                    sessionID, "", skillsToInject))]
                        ELSE st2,
                 out |-> Append(system, formatSkillsForInjection(skillsToInject)) ]
          ELSE [st |-> st2, out |-> system]

(* --------------------------- hooks/lifecycle.ts ------------------------ *)

CompactionHeader ==
  <<"## Preloaded Skills", "\n\n",
    "The following skills were loaded during this session and should persist:", "\n\n">>

\* variant: persistAfterCompaction is not looked at
compacting_AlwaysPersists(st, sessionID, context) ==
  LET allLoadedSkills == getAllLoadedSkills(st, sessionID) IN
  IF Len(allLoadedSkills) = 0 THEN [st |-> st, out |-> context]
  ELSE [ st |-> saveAnalytics(markInitialSkillsInjected(st, sessionID)),
         out |-> Append(context, CompactionHeader \o formatSkillsForInjection(allLoadedSkills)) ]

\* the compacting handler: yields the store and the output.context list
compacting(st, sessionID, context) ==
  IF ~config.persistAfterCompaction THEN [st |-> st, out |-> context]
  ELSE LET allLoadedSkills == getAllLoadedSkills(st, sessionID) IN
       IF Len(allLoadedSkills) = 0 THEN [st |-> st, out |-> context]
       ELSE LET st1 == markInitialSkillsInjected(st, sessionID)
                st2 == [st1 EXCEPT !.log = Append(@, LogEntry("Added all loaded skills to compaction context",
                                                              sessionID, "", allLoadedSkills))]
            IN [ st |-> saveAnalytics(st2),
                 out |-> Append(context, CompactionHeader \o formatSkillsForInjection(allLoadedSkills)) ]

\* the event handler
event(st, type, sessionID) ==
  IF type = "session.deleted" THEN cleanup(st, sessionID) ELSE st

(* -------------------------- hooks/tool-execute.ts ---------------------- *)

FILE_TOOLS == {"read", "edit", "write", "glob", "grep"}

\* an argument that is absent or not a string
NotAString == <<"undefined">>

getFilePathFromArgs(args) ==
  IF args.filePath # NotAString THEN args.filePath
  ELSE IF args.path # NotAString THEN args.path
  ELSE IF args.file # NotAString THEN args.file
  ELSE NotAString

\* the before handler: yields the call-id cache
before(paths, tool, callID, args) ==
  IF tool \notin FILE_TOOLS THEN paths
  ELSE LET filePath == getFilePathFromArgs(args) IN
       IF filePath # NotAString /\ Len(filePath) > 0
       THEN (callID :> filePath) @@ paths
       ELSE paths

ExtensionTrigger(st, sessionID, filePath) ==
  LET ext == extname(filePath)
      extSkillNames == getSkillsForExtension(ext, config.fileTypeSkills)
  IN IF Len(ext) > 0 /\ Len(extSkillNames) > 0
     THEN Trigger(st, sessionID, extSkillNames, "fileType")
     ELSE st

PathTrigger(st, sessionID, filePath) ==
  LET pathSkillNames == getSkillsForPath(filePath, config.pathPatterns)
  IN IF Len(pathSkillNames) > 0
     THEN Trigger(st, sessionID, pathSkillNames, "path")
     ELSE st

\* the after handler: yields the store and the call-id cache
after(st, paths, tool, sessionID, callID) ==
  IF tool \notin FILE_TOOLS \/ sessionID = NoSessionId THEN [st |-> st, paths |-> paths]
  ELSE IF callID \notin DOMAIN paths THEN [st |-> st, paths |-> paths]
  ELSE LET filePath == paths[callID]
           st1 == getState(st, sessionID)
       IN [ st |-> PathTrigger(ExtensionTrigger(st1, sessionID, filePath), sessionID, filePath),
            paths |-> Without(paths, callID) ]

(* ------------------------------ history -------------------------------- *)

SkillNames == {loadSkill(dir).name : dir \in DOMAIN SkillFiles}

Logged(log, message, sessionId) ==
  \E i \in DOMAIN log : log[i].message = message /\ log[i].sessionId = sessionId

\* the skills of the log entries with this message for this session
RECURSIVE LoggedSkills(_, _, _)
LoggedSkills(log, message, sessionId) ==
  IF log = <<>> THEN <<>>
  ELSE (IF Head(log).message = message /\ Head(log).sessionId = sessionId
        THEN Head(log).skills ELSE <<>>)
       \o LoggedSkills(Tail(log), message, sessionId)

Count(skills, name) == Cardinality({i \in DOMAIN skills : skills[i].name = name})

NoOutput == [op |-> "", sessionID |-> NoSessionId, added |-> <<>>]

Output(op, sessionID, added) ==
  IF Len(added) = 0 THEN NoOutput ELSE [op |-> op, sessionID |-> sessionID, added |-> added]

\* the new state: the store and the call-id cache as the handler left them,
\* what it added to its output, and the history derived from the call's log;
\* message says whether the call is a message-received with a text part
Commit(op, sessionID, message, added, st, paths) ==
  /\ sessions' = st.sessions
  /\ pendingSkills' = st.pendingSkills
  /\ analytics' = st.analytics
  /\ analyticsFile' = st.analyticsFile
  /\ skillCache' = st.skillCache
  /\ pendingFilePaths' = paths
  /\ produced' = Output(op, sessionID, added)
  /\ queuedTimes' =
       [s \in SessionIds |-> [n \in SkillNames |->
          IF Logged(st.log, "Cleaned up session state", s) THEN 0
          ELSE queuedTimes[s][n]
               + Count(LoggedSkills(st.log, "Queued skills for injection", s), n)]]
  /\ initialInjections' =
       [s \in SessionIds |->
          IF \/ Logged(st.log, "Cleaned up session state", s)
             \/ Logged(st.log, "Added all loaded skills to compaction context", s)
          THEN 0
          ELSE initialInjections[s]
               + (IF Logged(st.log, "Injected initial preloaded skills", s) THEN 1 ELSE 0)]
  /\ owed' =
       [s \in SessionIds |->
          IF message /\ sessionID = s THEN {}
          ELSE IF op = "tool.execute.after"
               THEN owed[s] \cup Range(LoggedSkills(st.log, "Queued skills for injection", s))
               ELSE owed[s]]
  /\ owedLost' =
       [s \in SessionIds |->
          IF message /\ sessionID = s THEN FALSE
          ELSE owedLost[s] \/ (Logged(st.log, "Cleaned up session state", s) /\ owed[s] # {})]
  /\ UNCHANGED <<config, diskWritable, edited, applied, returned>>

(* ------------------------------ the host ------------------------------- *)

\* message texts
HostText ==
  [ Text_hi |-> <<"h", "i">>,
    Text_sqldb |-> <<"S", "Q", "L", " ", "d", "b">> ]

Texts == {HostText.Text_hi, HostText.Text_sqldb}

\* the messages the host delivers: every kind for session s1, one with both
\* keywords for session s2, one without a session id
Messages ==
  {[sessionID |-> "s1", agent |-> a, hasText |-> TRUE, text |-> t] :
     a \in {"", "plan"}, t \in Texts}
  \cup {[sessionID |-> "s1", agent |-> "plan", hasText |-> FALSE, text |-> <<>>],
        [sessionID |-> "s1", agent |-> "build", hasText |-> TRUE, text |-> HostText.Text_hi],
        [sessionID |-> "s2", agent |-> "", hasText |-> TRUE, text |-> HostText.Text_sqldb],
        [sessionID |-> NoSessionId, agent |-> "plan", hasText |-> TRUE, text |-> HostText.Text_sqldb]}

\* paths in tool arguments
HostPath ==
  [ Path_axTS |-> <<"a", "/", "x", ".", "T", "S">>,
    Path_ay |-> <<"a", "/", "y">>,
    Path_md |-> <<"r", ".", "m", "d">> ]

ToolArgs ==
  { [filePath |-> HostPath.Path_axTS, path |-> HostPath.Path_md, file |-> NotAString],
    [filePath |-> NotAString, path |-> HostPath.Path_ay, file |-> HostPath.Path_md],
    [filePath |-> NotAString, path |-> NotAString, file |-> HostPath.Path_axTS],
    [filePath |-> <<>>, path |-> HostPath.Path_md, file |-> NotAString],
    [filePath |-> NotAString, path |-> NotAString, file |-> NotAString] }

\* tool calls as the before handler sees them; the tools are called in
\* session s1 (the handler does not read the session id)
ToolCalls ==
  {[tool |-> "edit", sessionID |-> "s1", args |-> a] : a \in ToolArgs}
  \cup {[tool |-> "bash", sessionID |-> "s1", args |-> [filePath |-> HostPath.Path_axTS, path |-> NotAString, file |-> NotAString]]}

\* tool results as the after handler sees them
ToolResults ==
  {[tool |-> "edit", sessionID |-> s] : s \in SessionIds \cup {NoSessionId}}
  \cup {[tool |-> "bash", sessionID |-> "s1"]}

Events ==
  {[type |-> "session.deleted", sessionID |-> s] : s \in SessionIds}
  \cup {[type |-> "session.idle", sessionID |-> "s1"]}

\* no function has been applied on its own
NoCall == [fn |-> "", args |-> <<>>]

\* the output list a handler is handed
PriorLists == {[i \in 1..n |-> <<"prior">>] : n \in 0..MaxPriorEntries}

\* the session manager and the history when the plugin function has returned
Constructed ==
  /\ sessions = EmptyMap
  /\ pendingSkills = EmptyMap
  /\ analytics = EmptyMap
  /\ analyticsFile = NoFile
  /\ diskWritable \in (IF config.analytics THEN BOOLEAN ELSE {TRUE})
  /\ edited = {}
  /\ pendingFilePaths = EmptyMap
  /\ skillCache = cacheSkills(EmptyMap, initialSkills)
  /\ produced = NoOutput
  /\ queuedTimes = [s \in SessionIds |-> [n \in SkillNames |-> 0]]
  /\ initialInjections = [s \in SessionIds |-> 0]
  /\ owed = [s \in SessionIds |-> {}]
  /\ owedLost = [s \in SessionIds |-> FALSE]
  /\ applied = NoCall
  /\ returned = None

Init ==
  /\ config \in Configs
  /\ Constructed

\* what a rewritten text holds in front of the original text
Prefix(textAfter, textBefore) == SubSeq(textAfter, 1, Len(textAfter) - Len(textBefore))

ChatMessage ==
  \E m \in Messages :
    \E r \in {chatMessage(Store, m.sessionID, m.agent, m.hasText, m.text)} :
    Commit("chat.message", m.sessionID, m.hasText /\ m.sessionID # NoSessionId /\ ~r.st.thrown,
           Prefix(r.text, m.text), r.st, pendingFilePaths)

\* the transform hook exists only when the injection method is systemPrompt
SystemTransform ==
  /\ config.injectionMethod = "systemPrompt"
  /\ \E sessionID \in SessionIds \cup {NoSessionId}, system \in PriorLists :
       \E r \in {systemPrompt(Store, sessionID, system)} :
       Commit("experimental.chat.system.transform", sessionID, FALSE,
              Flatten(Drop(r.out, Len(system))), r.st, pendingFilePaths)

ToolExecuteBefore ==
  \E t \in ToolCalls, callID \in CallIds :
    \E paths \in {before(pendingFilePaths, t.tool, callID, t.args)} :
    Commit("tool.execute.before", NoSessionId, FALSE, <<>>, Store, paths)

ToolExecuteAfter ==
  \E t \in ToolResults, callID \in CallIds :
    \E r \in {after(Store, pendingFilePaths, t.tool, t.sessionID, callID)} :
    Commit("tool.execute.after", t.sessionID, FALSE, <<>>, r.st, r.paths)

SessionCompacting ==
  \E sessionID \in SessionIds, context \in PriorLists :
    \E r \in {compacting(Store, sessionID, context)} :
    Commit("experimental.session.compacting", sessionID, FALSE,
           Flatten(Drop(r.out, Len(context))), r.st, pendingFilePaths)

SessionEvent ==
  \E e \in Events :
    \E st \in {event(Store, e.type, e.sessionID)} :
    Commit("event", e.sessionID, FALSE, <<>>, st, pendingFilePaths)

Next ==
  \/ ChatMessage
  \/ SystemTransform
  \/ ToolExecuteBefore
  \/ ToolExecuteAfter
  \/ SessionCompacting
  \/ SessionEvent

Spec == Init /\ [][Next]_vars

(* ------------------ skill files rewritten while running ---------------- *)

\* configurations without always-loaded skills and without a budget, whose
\* trigger lists name no two skill files of the same frontmatter name
DiskConfigs ==
  { [Config(NoInitial, method, 0, FALSE, TRUE)
       EXCEPT !.fileTypeSkills = <<>>,
              !.pathPatterns = << [key |-> Strings.Pat_a, value |-> <<"c">>] >>] :
      method \in {"chatMessage", "systemPrompt"} }

DiskInit ==
  /\ config \in DiskConfigs
  /\ Constructed

\* somebody rewrites the SKILL.md of a directory; the always-loaded skills
\* were read at startup, so only files they do not name are rewritten
EditSkillFile ==
  \E dir \in (DOMAIN EditedFiles) \ edited :
    /\ dir \notin Range(resolveSkillGroups(allInitialSkillNames(config), config.groups))
    /\ edited' = edited \cup {dir}
    /\ UNCHANGED << config, sessions, pendingSkills, analytics, analyticsFile, diskWritable,
                    pendingFilePaths, skillCache, produced, queuedTimes, initialInjections,
                    owed, owedLost, applied, returned >>

DiskNext ==
  \/ ChatMessage
  \/ SystemTransform
  \/ ToolExecuteBefore
  \/ ToolExecuteAfter
  \/ SessionCompacting
  \/ SessionEvent
  \/ EditSkillFile

DiskSpec == DiskInit /\ [][DiskNext]_vars

(* ------------------ a trigger list that makes a handler throw ---------- *)

\* configurations whose list for the agent "build" names a group that is
\* not configured and that Object.prototype holds
ThrowConfigs ==
  { [Config(NoInitial, method, 0, FALSE, TRUE)
       EXCEPT !.fileTypeSkills = <<>>,
              !.agentSkills = << [key |-> "plan", value |-> <<"@nogroup", "@g">>],
                                 [key |-> "build", value |-> <<"@constructor">>] >>] :
      method \in {"chatMessage", "systemPrompt"} }

ThrowInit ==
  /\ config \in ThrowConfigs
  /\ Constructed

ThrowSpec == ThrowInit /\ [][Next]_vars

(* ------------------- the functions applied on their own ---------------- *)

JsonFile(parsed) == [kind |-> "json", parsed |-> parsed]

Property(key, type, value) == (key :> J(type, value))

IfTsconfig == [fileExists |-> "tsconfig.json", packageHasDependency |-> NoCheck, envVar |-> NoCheck]

IfVue == [fileExists |-> "tsconfig.json", packageHasDependency |-> "vue", envVar |-> NoCheck]

\* the configuration files the plugin is started with, one after the other
ConfigFiles ==
  << [kind |-> "absent", parsed |-> EmptyMap],
    [kind |-> "malformed", parsed |-> EmptyMap],
    [kind |-> "null", parsed |-> EmptyMap],
    JsonFile(EmptyMap),
    JsonFile(Property("skills", "array", <<"a", "missing">>)),
    JsonFile(Property("skills", "array", <<"missing">>)),
    JsonFile(Property("skills", "array", <<"@g">>)
             @@ Property("groups", "object",
                         << [key |-> "g", value |-> J("array", <<"a", "missing">>)] >>)),
    JsonFile(Property("skills", "array", <<"c", "d">>)
             @@ Property("injectionMethod", "string", "chatMessage")),
    JsonFile(Property("skills", "array", <<"big", "a">>)
             @@ Property("maxTokens", "number", 2)),
    JsonFile(Property("skills", "array", <<"a", "<42>">>)),
    JsonFile(Property("skills", "string", "a")
             @@ Property("injectionMethod", "string", "invalid")
             @@ Property("maxTokens", "string", "100")
             @@ Property("analytics", "boolean", TRUE)),
    JsonFile(Property("conditionalSkills", "array",
                      << [type |-> "object", skill |-> "a", ifType |-> "object", if |-> IfTsconfig],
                         [type |-> "object", skill |-> "c", ifType |-> "string", if |-> IfTsconfig],
                         [type |-> "object", skill |-> "<undefined>", ifType |-> "object", if |-> IfTsconfig],
                         [type |-> "object", skill |-> "missing", ifType |-> "object", if |-> IfTsconfig],
                         [type |-> "object", skill |-> "big", ifType |-> "object", if |-> IfVue] >>)
             @@ Property("injectionMethod", "number", 1)
             @@ Property("enableTools", "boolean", FALSE)
             @@ Property("persistAfterCompaction", "boolean", FALSE)),
    JsonFile(Property("fileTypeSkills", "object",
                      << [key |-> Strings.Key_ts, value |-> J("array", <<"big", "<42>">>)],
                         [key |-> Strings.Str_ts, value |-> J("string", "a")] >>)
             @@ Property("agentSkills", "string", "plan")
             @@ Property("injectionMethod", "string", "systemPrompt")) >>

\* the application of a function leaves the plugin's state alone; the
\* functions keep no state of their own, so one application is followed
\* from the start
Return(fn, args, value) ==
  /\ applied = NoCall
  /\ applied' = [fn |-> fn, args |-> args]
  /\ returned' = value
  /\ UNCHANGED << config, sessions, pendingSkills, analytics, analyticsFile, diskWritable, edited, pendingFilePaths,
                  skillCache, produced, queuedTimes, initialInjections, owed, owedLost >>

ApplyPreloadSkillsPlugin ==
  \E i \in DOMAIN ConfigFiles :
    Return("PreloadSkillsPlugin", <<ConfigFiles[i]>>, PreloadSkillsPlugin(ConfigFiles[i]))

ApplyLoadConfig ==
  \E i \in DOMAIN ConfigFiles :
    Return("loadConfig", <<ConfigFiles[i]>>, loadConfig(ConfigFiles[i]))

\* the names of a request and the group maps it is resolved with
\* what an application yields that ends in a TypeError
TypeErrorThrown == <<"TypeError: not iterable">>

RequestNames == {"@g", "@h", "@nogroup", "@constructor", "a", "b", "c"}

Requests == UNION {[1..n -> RequestNames] : n \in 0..MaxRequest}

Groups_g == << [key |-> "g", value |-> <<"a", "b">>] >>

GroupMaps ==
  { <<>>,
    Groups_g,
    << [key |-> "g", value |-> <<"a", "b">>], [key |-> "h", value |-> <<"b", "@g", "c">>] >>,
    << [key |-> "h", value |-> <<>>] >> }

ApplyResolveSkillGroups ==
  \E skillNames \in Requests, groups \in GroupMaps :
    Return("resolveSkillGroups", <<skillNames, groups>>,
           IF resolveSkillGroupsThrows(skillNames, groups) THEN TypeErrorThrown
           ELSE resolveSkillGroups(skillNames, groups))

\* glob patterns and file paths, written character by character
Glob ==
  [ P_srcApiAll |-> <<"s", "r", "c", "/", "a", "p", "i", "/", "*", "*">>,
    P_srcStarTs |-> <<"s", "r", "c", "/", "*", ".", "t", "s">>,
    P_srcApiAllStarTs |-> <<"s", "r", "c", "/", "a", "p", "i", "/", "*", "*", "/", "*", ".", "t", "s">>,
    P_starTs |-> <<"*", ".", "t", "s">>,
    F_users |-> <<"s", "r", "c", "/", "a", "p", "i", "/", "u", "s", "e", "r", "s", ".", "t", "s">>,
    F_v1users |-> <<"s", "r", "c", "/", "a", "p", "i", "/", "v", "1", "/", "u", "s", "e", "r", "s", ".", "t", "s">>,
    F_button |-> <<"s", "r", "c", "/", "c", "o", "m", "p", "o", "n", "e", "n", "t", "s", "/", "B", "u", "t", "t", "o", "n", ".", "t", "s", "x">>,
    F_deep |-> <<"s", "r", "c", "/", "d", "e", "e", "p", "/", "i", "n", "d", "e", "x", ".", "t", "s">>,
    F_fileTs |-> <<"f", "i", "l", "e", ".", "t", "s">>,
    F_filets |-> <<"f", "i", "l", "e", "t", "s">> ]

\* the patterns and paths of the documented examples
GlobExamples ==
  {Glob.P_srcApiAll, Glob.P_srcStarTs, Glob.P_srcApiAllStarTs, Glob.P_starTs}
    \X {Glob.F_users, Glob.F_v1users, Glob.F_button, Glob.F_deep, Glob.F_fileTs, Glob.F_filets}

\* every path of up to MaxPath characters over a small alphabet, against
\* patterns that hold each wildcard
PathAlphabet == {"a", ".", "/"}

SmallPaths == UNION {[1..n -> PathAlphabet] : n \in 0..MaxPath}

SmallPatterns ==
  { <<"a", ".", "a">>,
    <<"*">>,
    <<"*", "*">>,
    <<"a", "/", "*">>,
    <<"*", ".", "a">>,
    <<"a", "/", "*", "*">>,
    <<"*", "*", "/", "a">>,
    <<"a", "/", "*", "*", "/", "*">>,
    <<"a", "*", "*", "a">>,
    <<"?", "a">> }

ApplyMatchGlobPattern ==
  \E c \in GlobExamples \cup (SmallPatterns \X SmallPaths) :
    Return("matchGlobPattern", <<c[2], c[1]>>, matchGlobPattern(c[2], c[1]))

\* the conditions of a conditional skill: each check absent or present
Conditions ==
  [ fileExists : {NoCheck, "tsconfig.json", "absent.txt"},
    packageHasDependency : {NoCheck, "react", "vue", "blank"},
    envVar : {NoCheck, "CI", "UNSET", "EMPTY"} ]

ApplyCheckCondition ==
  \E condition \in Conditions, projectDir \in DOMAIN Projects :
    Return("checkCondition", <<condition, projectDir>>, checkCondition(condition, projectDir))

\* extensions as extname yields them; "" is a path without extension
Extensions == {Strings.Str_ts, Strings.Str_TS, Strings.Str_tsx, Strings.Str_md, Strings.Str_t, <<>>}

\* fileTypeSkills objects, entries in insertion order
FileTypeMaps ==
  { <<>>,
    << [key |-> Strings.Key_ts, value |-> <<"big", "a">>] >>,
    << [key |-> Strings.Key_ts, value |-> <<"big", "a">>],
       [key |-> Strings.Key_tsmd, value |-> <<"a", "c">>],
       [key |-> Strings.Str_md, value |-> <<"d", "c">>] >>,
    << [key |-> Strings.Key_spaced, value |-> <<"c", "c">>],
       [key |-> Strings.Str_TS, value |-> <<"a", "c", "d">>],
       [key |-> Strings.Key_inner, value |-> <<"big">>] >> }

ApplyGetSkillsForExtension ==
  \E ext \in Extensions, fileTypeSkills \in FileTypeMaps :
    Return("getSkillsForExtension", <<ext, fileTypeSkills>>,
           getSkillsForExtension(ext, fileTypeSkills))

FunctionNext ==
  \/ ApplyPreloadSkillsPlugin
  \/ ApplyLoadConfig
  \/ ApplyResolveSkillGroups
  \/ ApplyMatchGlobPattern
  \/ ApplyCheckCondition
  \/ ApplyGetSkillsForExtension

\* the plugin was started without a configuration file
FunctionInit ==
  /\ config = DEFAULT_CONFIG
  /\ Constructed

FunctionSpec == FunctionInit /\ [][FunctionNext]_vars

(* ------------------------------ properties ----------------------------- *)

ChatMode == config.injectionMethod # "systemPrompt"

\* messages with a text part for session s
TextMessages(s) == {m \in Messages : m.sessionID = s /\ m.hasText}

\* the store when the handler has evaluated the agent and keyword triggers of m
AfterTriggers(m) ==
  ContentTriggers(AgentTrigger(getState(Store, m.sessionID), m.sessionID, m.agent),
                  m.sessionID, m.text, config.contentTriggers)

Handled(m) == chatMessage(Store, m.sessionID, m.agent, m.hasText, m.text)

\* number of <preloaded-skill> elements with this name in a text
Elements(text, name) ==
  Cardinality({i \in 1..(Len(text) - 1) :
                 text[i] = "<preloaded-skill name=" /\ text[i + 1] = name})

ElementNames(text) ==
  {text[i + 1] : i \in {j \in 1..(Len(text) - 1) : text[j] = "<preloaded-skill name="}}

\* the trigger lists of the configuration
TriggerLists ==
  {config.fileTypeSkills[i].value : i \in DOMAIN config.fileTypeSkills}
  \cup {config.pathPatterns[i].value : i \in DOMAIN config.pathPatterns}
  \cup {config.agentSkills[i].value : i \in DOMAIN config.agentSkills}
  \cup {config.contentTriggers[i].value : i \in DOMAIN config.contentTriggers}

\* C1: with a positive maxTokens, every existing session's totalTokensUsed is
\* at most maxTokens, after any sequence of events
C1_TotalWithinCap ==
  config.maxTokens > 0 =>
    \A s \in DOMAIN sessions : sessions[s].totalTokensUsed <= config.maxTokens

\* a session that has reached the cap with skills two triggers of one tool
\* call queued on top of its initial ones
C1_Witness ==
  /\ config.maxTokens > 0
  /\ \E s \in DOMAIN sessions :
       /\ sessions[s].totalTokensUsed = config.maxTokens
       /\ queuedTimes[s]["a"] = 1 /\ queuedTimes[s]["c"] = 1
       /\ Len(getPendingSkills(Store, s)) = 2

\* the longest prefix of skills whose running token sum is at most budget
RECURSIVE LongestPrefix(_, _)
LongestPrefix(skills, budget) ==
  IF skills = <<>> \/ Head(skills).tokenCount > budget THEN <<>>
  ELSE <<Head(skills)>> \o LongestPrefix(Tail(skills), budget - Head(skills).tokenCount)

\* C2: for every trigger list and every session, the skills the budget filter
\* keeps are exactly the longest prefix of the loaded skills that fits the
\* remaining budget
C2_GreedyPrefix ==
  config.maxTokens # 0 =>
    \A s \in DOMAIN sessions, names \in TriggerLists :
      loadWithBudget(names, sessions[s].totalTokensUsed)
        = LongestPrefix(loadSkills(resolveSkillGroups(names, config.groups)),
                        config.maxTokens - sessions[s].totalTokensUsed)

\* C3: queueSkills with skills whose names are all in the session's loaded
\* set changes nothing; between the creation of a session and its deletion a
\* skill name is added to the token total and appended to the session's
\* pending queue at most once
C3_QueuedAtMostOnce ==
  /\ \A s \in DOMAIN sessions, names \in TriggerLists,
        triggerType \in {"fileType", "path", "agent", "content"} :
       LET skills == loadSkills(resolveSkillGroups(names, config.groups)) IN
       Range(Names(skills)) \subseteq Range(sessions[s].loadedSkills) =>
         queueSkills(Store, s, skills, triggerType) = Store
  /\ \A s \in SessionIds, n \in SkillNames : queuedTimes[s][n] <= 1

\* C4: in chatMessage mode the always-loaded block goes into at most one
\* message of a session while the flag is not reset by a compaction; once the
\* flag is set a message gets no always-loaded block, and its text is left as
\* it is when no skills are pending
C4_InitialBlockOnce ==
  ChatMode =>
    /\ \A s \in SessionIds : initialInjections[s] <= 1
    /\ \A s \in DOMAIN sessions : sessions[s].initialSkillsInjected =>
         \A m \in TextMessages(s) :
           /\ ~Logged(Handled(m).st.log, "Injected initial preloaded skills", s)
           /\ Len(getPendingSkills(AfterTriggers(m), s)) = 0 => Handled(m).text = m.text

\* a session whose first message got the always-loaded block and whose flag is set
C4_Witness ==
  /\ ChatMode
  /\ \E s \in DOMAIN sessions :
       /\ sessions[s].initialSkillsInjected
       /\ initialInjections[s] = 1
       /\ \E m \in TextMessages(s) : Handled(m).text = m.text

\* C5: with persistAfterCompaction a compaction of a session with N >= 1
\* loaded skills appends exactly one entry, which holds an element for each
\* of the N names; without persistAfterCompaction it appends nothing
C5_CompactionEntry ==
  \A s \in DOMAIN sessions, context \in PriorLists :
    LET out == compacting(Store, s, context).out IN
    IF config.persistAfterCompaction
    THEN Len(sessions[s].loadedSkills) >= 1 =>
           /\ Len(out) = Len(context) + 1
           /\ SubSeq(out, 1, Len(context)) = context
           /\ \A n \in Range(sessions[s].loadedSkills) : Elements(out[Len(out)], n) >= 1
    ELSE out = context

\* a compaction has appended an entry that holds an initial skill and a
\* skill queued by a trigger
C5_Witness ==
  /\ produced.op = "experimental.session.compacting"
  /\ Len(sessions[produced.sessionID].loadedSkills) = 2
  /\ \A n \in Range(sessions[produced.sessionID].loadedSkills) : Elements(produced.added, n) = 1
  /\ Len(initialSkills) = 1

FreshState ==
  [ initialSkillsInjected |-> FALSE, loadedSkills |-> initialSkillNames,
    totalTokensUsed |-> initialTokensUsed ]

\* C6: a session-deleted event leaves no state, no pending queue and no
\* analytics record for the session, and a session without state holds
\* neither; the next access creates the initial state with an empty queue
C6_DeletionClears ==
  /\ \A s \in DOMAIN sessions :
       LET st == event(Store, "session.deleted", s) IN
       /\ s \notin DOMAIN st.sessions
       /\ s \notin DOMAIN st.pendingSkills
       /\ s \notin DOMAIN st.analytics
  /\ \A s \in SessionIds \ DOMAIN sessions :
       /\ s \notin DOMAIN pendingSkills
       /\ s \notin DOMAIN analytics
       /\ getState(Store, s).sessions[s] = FreshState
       /\ getPendingSkills(getState(Store, s), s) = <<>>
       /\ chatMessage(Store, s, "", FALSE, <<>>).st.sessions[s] = FreshState

\* a session deleted while skills queued by a tool call were waiting, while
\* the other session keeps its state and its analytics record
C6_Witness ==
  \E s \in SessionIds, other \in SessionIds :
    /\ s \notin DOMAIN sessions
    /\ owedLost[s]
    /\ other \in DOMAIN sessions
    /\ other \in DOMAIN analytics

\* the contents of the skills owed to session s are all in the text
OwedRendered(s, text) == \A skill \in owed[s] : skill.content \in Range(text)

ExpectedText(initialBlock, pendingBlock, text) ==
  IF Len(initialBlock) > 0 /\ Len(pendingBlock) > 0
  THEN initialBlock \o <<"\n\n">> \o pendingBlock \o <<"\n\n", "---", "\n\n">> \o text
  ELSE IF Len(initialBlock) > 0 \/ Len(pendingBlock) > 0
  THEN initialBlock \o pendingBlock \o <<"\n\n", "---", "\n\n">> \o text
  ELSE text

\* C8: in chatMessage mode the rewritten text is the always-loaded block (if
\* not yet injected), the block of the pending queue (if not empty), the
\* separator and the original text, in this order; with no block the text is
\* as received
C8_RewrittenTextOrder ==
  ChatMode =>
    \A s \in SessionIds : \A m \in TextMessages(s) :
      LET st == AfterTriggers(m) IN
      Handled(m).text =
        ExpectedText(IF st.sessions[s].initialSkillsInjected THEN <<>>
                     ELSE formatSkillsForInjection(initialSkills),
                     formatSkillsForInjection(getPendingSkills(st, s)),
                     m.text)

\* a message has been given both blocks
C8_Witness ==
  /\ ChatMode
  /\ produced.op = "chat.message"
  /\ Len(initialFormattedContent) > 0
  /\ SubSeq(produced.added, 1, Len(initialFormattedContent) + 2)
       = initialFormattedContent \o <<"\n\n", "<preloaded-skills>">>
  /\ "Body-c" \in Range(produced.added)

IsPrefix(p, q) == Len(p) <= Len(q) /\ SubSeq(q, 1, Len(p)) = p

\* C9: in systemPrompt mode the message handler leaves the text as it is,
\* takes nothing from any pending queue and sets no injected flag; it leaves
\* the store as the agent and keyword triggers left it
C9_SystemModeMessageUntouched ==
  ~ChatMode =>
    \A m \in Messages :
      LET r == Handled(m) IN
      /\ r.text = m.text
      /\ \A s \in DOMAIN pendingSkills :
           IsPrefix(pendingSkills[s], getPendingSkills(r.st, s))
      /\ \A s \in DOMAIN r.st.sessions :
           r.st.sessions[s].initialSkillsInjected =>
             s \in DOMAIN sessions /\ sessions[s].initialSkillsInjected
      /\ (m.hasText /\ m.sessionID # NoSessionId) =>
           /\ r.st.sessions = AfterTriggers(m).sessions
           /\ r.st.pendingSkills = AfterTriggers(m).pendingSkills

\* in systemPrompt mode a keyword has queued a skill that waits for the next render
C9_Witness ==
  /\ ~ChatMode
  /\ \E s \in DOMAIN pendingSkills \cap DOMAIN analytics :
       /\ "c" \in DOMAIN analytics[s]
       /\ analytics[s]["c"].triggerType = "content"
       /\ "c" \in Range(Names(pendingSkills[s]))
       /\ ~sessions[s].initialSkillsInjected

\* C10: an instruction render with a session id appends at most one entry,
\* which holds each skill name at most once, drawn from the always-loaded
\* skills, the loaded set and the pending queue, and leaves the pending queue
\* empty; a render without a session id appends nothing and changes nothing
C10_RenderOnceEach ==
  ~ChatMode =>
    \A system \in PriorLists :
      /\ systemPrompt(Store, NoSessionId, system) = [st |-> Store, out |-> system]
      /\ \A s \in SessionIds :
           LET r == systemPrompt(Store, s, system)
               st == getState(Store, s)
           IN /\ Len(r.out) <= Len(system) + 1
              /\ IsPrefix(system, r.out)
              /\ s \notin DOMAIN r.st.pendingSkills
              /\ Len(r.out) = Len(system) + 1 =>
                   /\ \A n \in SkillNames : Elements(r.out[Len(r.out)], n) <= 1
                   /\ ElementNames(r.out[Len(r.out)])
                        \subseteq Range(Names(initialSkills))
                                  \cup Range(st.sessions[s].loadedSkills)
                                  \cup Range(Names(getPendingSkills(st, s)))

\* the names the configuration asks for at startup: the always-loaded names
\* and the names of the conditional skills whose condition holds, a group
\* reference replaced by the group's members
RequestedNames(cfg) ==
  UNION { IF n \in DOMAIN AtNames /\ HasKey(cfg.groups, AtNames[n])
          THEN Range(GetKey(cfg.groups, AtNames[n])) ELSE {n} :
          n \in Range(cfg.skills) \cup Range(resolveConditionalSkills(cfg)) }

ReportedMissing(log) == UNION {Range(log[i].missing) : i \in DOMAIN log}

C12_HooksReturned ==
  applied.fn = "PreloadSkillsPlugin" =>
    /\ ~returned.rejected
    /\ {"chat.message", "tool.execute.before", "tool.execute.after",
        "experimental.session.compacting", "event"} \subseteq returned.hooks
    /\ "experimental.chat.system.transform" \in returned.hooks
         <=> returned.config.injectionMethod = "systemPrompt"

\* the file sets one of the two injection methods
SetsMethod(file) ==
  /\ file.kind = "json"
  /\ TypeOf(file.parsed, "injectionMethod") = "string"
  /\ file.parsed.injectionMethod.value \in {"systemPrompt", "chatMessage"}

\* C13: a file that is not JSON yields exactly the default configuration,
\* and a file whose injectionMethod is none of the two methods yields the
\* method systemPrompt
C13_ConfigFallback ==
  applied.fn = "loadConfig" =>
    /\ applied.args[1].kind = "malformed" => returned = DEFAULT_CONFIG
    /\ ~SetsMethod(applied.args[1]) => returned.injectionMethod = "systemPrompt"

\* a file with another injection method, whose other settings are taken
C13_Witness ==
  /\ applied.fn = "loadConfig"
  /\ applied.args[1].kind = "json"
  /\ TypeOf(applied.args[1].parsed, "injectionMethod") = "string"
  /\ ~SetsMethod(applied.args[1])
  /\ returned.injectionMethod = "systemPrompt"
  /\ returned.analytics

\* what a name of a request stands for: the members of its group, or itself
Expansion(name, groups) ==
  IF name \in DOMAIN AtNames /\ \E i \in DOMAIN groups : groups[i].key = AtNames[name]
  THEN groups[CHOOSE i \in DOMAIN groups : groups[i].key = AtNames[name]].value
  ELSE <<name>>

RECURSIVE Concatenation(_, _)
Concatenation(names, groups) ==
  IF names = <<>> THEN <<>>
  ELSE Expansion(Head(names), groups) \o Concatenation(Tail(names), groups)

FirstIndex(seq, x) == CHOOSE i \in DOMAIN seq : seq[i] = x /\ \A j \in 1..(i - 1) : seq[j] # x

\* r holds every element of seq once, in the order of the first occurrences
IsFirstOccurrences(r, seq) ==
  /\ Range(r) = Range(seq)
  /\ \A i, j \in DOMAIN r : i < j => r[i] # r[j] /\ FirstIndex(seq, r[i]) < FirstIndex(seq, r[j])

\* C14: resolveSkillGroups yields the members of each resolvable group and
\* the other names, in request order, every repetition after the first
\* occurrence removed; with g = [a, b], [@g] and [@g, a] both yield [a, b]
C14_GroupExpansion ==
  applied.fn = "resolveSkillGroups" =>
    /\ IsFirstOccurrences(returned, Concatenation(applied.args[1], applied.args[2]))
    /\ (applied.args[2] = Groups_g /\ applied.args[1] \in {<<"@g">>, <<"@g", "a">>})
         => returned = <<"a", "b">>

StartsWith(s, prefix) == Len(s) >= Len(prefix) /\ SubSeq(s, 1, Len(prefix)) = prefix

\* p is zero or more whole segments: non-empty runs without a slash, each
\* followed by a slash
RECURSIVE WholeSegments(_)
WholeSegments(p) ==
  \/ p = <<>>
  \/ \E k \in 2..Len(p) :
       /\ p[k] = "/"
       /\ \A i \in 1..(k - 1) : p[i] # "/"
       /\ WholeSegments(SubSeq(p, k + 1, Len(p)))

\* what the whole of a path has to be for the whole of a pattern to match it
RECURSIVE GlobMeaning(_, _)
GlobMeaning(pattern, path) ==
  IF pattern = <<>> THEN path = <<>>
  ELSE IF StartsWith(pattern, <<"*", "*", "/">>)
  THEN \E k \in 0..Len(path) :
         /\ WholeSegments(SubSeq(path, 1, k))
         /\ GlobMeaning(SubSeq(pattern, 4, Len(pattern)), SubSeq(path, k + 1, Len(path)))
  ELSE IF StartsWith(pattern, <<"*", "*">>)
  THEN \E k \in 0..Len(path) :
         GlobMeaning(SubSeq(pattern, 3, Len(pattern)), SubSeq(path, k + 1, Len(path)))
  ELSE IF pattern[1] = "*"
  THEN \E k \in 0..Len(path) :
         /\ \A i \in 1..k : path[i] # "/"
         /\ GlobMeaning(Tail(pattern), SubSeq(path, k + 1, Len(path)))
  ELSE /\ path # <<>>
       /\ IF pattern[1] = "?" THEN path[1] # "/" ELSE path[1] = pattern[1]
       /\ GlobMeaning(Tail(pattern), Tail(path))

\* C15: matchGlobPattern matches the whole path; * stands for a run without
\* a slash, ** for any run, **/ for zero or more whole segments, and every
\* other character, the dot too, for itself; the documented examples match
\* and fail as documented
C15_GlobMatcher ==
  applied.fn = "matchGlobPattern" =>
    LET path == applied.args[1]
        pattern == applied.args[2]
    IN /\ returned = GlobMeaning(pattern, path)
       /\ (pattern = Glob.P_srcApiAll /\ path \in {Glob.F_users, Glob.F_v1users}) => returned
       /\ (pattern = Glob.P_srcApiAll /\ path = Glob.F_button) => ~returned
       /\ (pattern = Glob.P_srcStarTs /\ path = Glob.F_deep) => ~returned
       /\ (pattern = Glob.P_srcApiAllStarTs /\ path = Glob.F_users) => returned
       /\ (pattern = Glob.P_starTs /\ path = Glob.F_fileTs) => returned
       /\ (pattern = Glob.P_starTs /\ path = Glob.F_filets) => ~returned

\* src/api/**/*.ts has matched src/api/users.ts, the **/ standing for no segment
C15_Witness ==
  /\ applied = [fn |-> "matchGlobPattern", args |-> <<Glob.F_users, Glob.P_srcApiAllStarTs>>]
  /\ returned = TRUE

\* the checks of a condition as the documentation states them
FileCheck(condition, projectDir) ==
  condition.fileExists = NoCheck \/ condition.fileExists \in Projects[projectDir].files

DependencyCheck(condition, projectDir) ==
  \/ condition.packageHasDependency = NoCheck
  \/ /\ Projects[projectDir].package = "parsed"
     /\ condition.packageHasDependency \in DOMAIN Projects[projectDir].deps

EnvCheck(condition) == condition.envVar = NoCheck \/ condition.envVar \in DOMAIN ProcessEnv

LoadedNames(log) == UNION {Range(log[i].loaded) : i \in DOMAIN log}

\* C16: checkCondition holds exactly when every check present in the
\* condition passes: the file is under the project root, the name is among
\* the dependencies of a package.json that is there and is JSON, the
\* variable is set; a conditional skill that has a skill file is among the
\* initial skills exactly when its condition holds
C16_ConditionIsConjunction ==
  /\ applied.fn = "checkCondition" =>
       returned = ( /\ FileCheck(applied.args[1], applied.args[2])
                    /\ DependencyCheck(applied.args[1], applied.args[2])
                    /\ EnvCheck(applied.args[1]) )
  /\ (applied.fn = "PreloadSkillsPlugin" /\ ~returned.rejected) =>
       \A i \in DOMAIN returned.config.conditionalSkills :
         LET item == returned.config.conditionalSkills[i] IN
         item.skill \in DOMAIN SkillFiles =>
           ( item.skill \in LoadedNames(returned.log)
               <=> ( /\ FileCheck(item.if, ProjectDir)
                     /\ DependencyCheck(item.if, ProjectDir)
                     /\ EnvCheck(item.if) ) )

\* C17: a condition that holds the envVar check alone passes exactly when
\* the variable is defined in the process environment, whatever its value
C17_EnvVarPresence ==
  ( /\ applied.fn = "checkCondition"
    /\ applied.args[1].fileExists = NoCheck
    /\ applied.args[1].packageHasDependency = NoCheck
    /\ applied.args[1].envVar # NoCheck ) =>
    returned = (applied.args[1].envVar \in DOMAIN ProcessEnv)

\* the pieces of a key between its commas
ListedExtensions(key) ==
  { SubSeq(key, p[1], p[2]) :
      p \in { q \in (1..(Len(key) + 1)) \X (0..Len(key)) :
                /\ q[1] <= q[2] + 1
                /\ q[1] = 1 \/ key[q[1] - 1] = ","
                /\ q[2] = Len(key) \/ key[q[2] + 1] = ","
                /\ \A k \in q[1]..q[2] : key[k] # "," } }

CasePairs ==
  {{"t", "T"}, {"s", "S"}, {"x", "X"}, {"d", "D"}, {"b", "B"}, {"q", "Q"}, {"l", "L"}}

SameIgnoringCase(s, t) ==
  /\ Len(s) = Len(t)
  /\ \A k \in DOMAIN s : s[k] = t[k] \/ {s[k], t[k]} \in CasePairs

\* e without the spaces around it is ext, letter case aside
SameIgnoringSpacesAndCase(e, ext) ==
  \E a \in 1..(Len(e) + 1), b \in 0..Len(e) :
    /\ a <= b + 1
    /\ \A k \in DOMAIN e : (k < a \/ k > b) => e[k] = " "
    /\ a <= b => (e[a] # " " /\ e[b] # " ")
    /\ SameIgnoringCase(SubSeq(e, a, b), ext)

KeyMatches(ext, key) == \E e \in ListedExtensions(key) : SameIgnoringSpacesAndCase(e, ext)

RECURSIVE MatchedLists(_, _)
MatchedLists(ext, map) ==
  IF map = <<>> THEN <<>>
  ELSE (IF KeyMatches(ext, Head(map).key) THEN Head(map).value ELSE <<>>)
         \o MatchedLists(ext, Tail(map))

\* C18: getSkillsForExtension yields the skill lists of the keys that list
\* the extension (keys list extensions between commas; letter case and the
\* spaces around a listed extension do not count), joined in key order,
\* every repetition after the first occurrence removed; an extension that
\* no key lists yields the empty list
C18_ExtensionMatching ==
  applied.fn = "getSkillsForExtension" =>
    LET ext == applied.args[1]
        map == applied.args[2]
    IN /\ IsFirstOccurrences(returned, MatchedLists(ext, map))
       /\ (\A i \in DOMAIN map : ~KeyMatches(ext, map[i].key)) => returned = <<>>

\* ".ts" has been looked up in a map whose keys " .Ts , .tsx " and ".TS"
\* list it and whose lists overlap
C18_Witness ==
  /\ applied.fn = "getSkillsForExtension"
  /\ applied.args[1] = Strings.Str_ts
  /\ \E i \in DOMAIN applied.args[2] : applied.args[2][i].key = Strings.Key_spaced
  /\ returned = <<"c", "a", "d">>

\* keyword occurs in text, letter case aside
OccursIgnoringCase(text, keyword) ==
  \E k \in 0..(Len(text) - Len(keyword)) :
    SameIgnoringCase(SubSeq(text, k + 1, k + Len(keyword)), keyword)

\* the skill lists the message m triggers: the one of its agent, and the
\* one of every keyword that occurs in its text
TriggeredLists(m) ==
  {config.agentSkills[i].value :
     i \in {j \in DOMAIN config.agentSkills : config.agentSkills[j].key = m.agent}}
  \cup {config.contentTriggers[i].value :
          i \in {j \in DOMAIN config.contentTriggers :
                   OccursIgnoringCase(m.text, config.contentTriggers[j].key)}}

\* the skills on disk that these lists name, groups expanded
TriggeredSkills(m) ==
  UNION {Range(Concatenation(list, config.groups)) : list \in TriggeredLists(m)}
    \cap DOMAIN SkillFiles

\* the session as the handler finds or creates it
SessionBefore(s) == getState(Store, s).sessions[s]

\* the triggered skills whose name the session has not loaded yet
NotYetLoaded(m) ==
  {n \in TriggeredSkills(m) : loadSkill(n).name \notin Range(SessionBefore(m.sessionID).loadedSkills)}

RECURSIVE TokensOf(_)
TokensOf(dirs) ==
  IF dirs = {} THEN 0
  ELSE LET n == CHOOSE x \in dirs : TRUE
       IN estimateTokens(SkillFiles[n].length) + TokensOf(dirs \ {n})

\* there is no budget, or the not-yet-loaded skills fit it all together
AllFitBudget(m) ==
  \/ config.maxTokens = 0
  \/ SessionBefore(m.sessionID).totalTokensUsed + TokensOf(NotYetLoaded(m)) <= config.maxTokens

\* C19: in chatMessage mode, the not-yet-loaded skills that the agent of a
\* message and the keywords in its text trigger are, when they fit the
\* budget, loaded for the session and rendered into this very message;
\* every keyword is looked for in the text as it was received
C19_TriggersRenderedInSameMessage ==
  ChatMode =>
    \A s \in SessionIds : \A m \in TextMessages(s) :
      AllFitBudget(m) =>
        \A n \in NotYetLoaded(m) :
          /\ SkillFiles[n].content \in Range(Prefix(Handled(m).text, m.text))
          /\ loadSkill(n).name \in Range(Handled(m).st.sessions[s].loadedSkills)

\* the trigger lists of the configuration, each with the trigger type its
\* handler supplies to loadWithBudget
TypedTriggerLists ==
  {[names |-> config.fileTypeSkills[i].value, type |-> "fileType"] : i \in DOMAIN config.fileTypeSkills}
  \cup {[names |-> config.pathPatterns[i].value, type |-> "path"] : i \in DOMAIN config.pathPatterns}
  \cup {[names |-> config.agentSkills[i].value, type |-> "agent"] : i \in DOMAIN config.agentSkills}
  \cup {[names |-> config.contentTriggers[i].value, type |-> "content"] : i \in DOMAIN config.contentTriggers}

Recorded(st, s, name, type) ==
  /\ s \in DOMAIN st.analytics
  /\ name \in DOMAIN st.analytics[s]
  /\ st.analytics[s][name].triggerType = type

\* C20: with analytics enabled, when a handler has called loadWithBudget for
\* a session and handled its result, every skill the call kept is in the
\* analytics of the session under the trigger type of the call
C20_KeptSkillsRecorded ==
  config.analytics =>
    \A s \in SessionIds : \A t \in TypedTriggerLists :
      LET st == getState(Store, s)
          kept == loadWithBudget(t.names, st.sessions[s].totalTokensUsed)
      IN \A i \in DOMAIN kept :
           Recorded(Trigger(st, s, t.names, t.type), s, kept[i].name, t.type)

\* the names of a list that yield a skill, groups expanded
RECURSIVE Loadable(_)
Loadable(names) ==
  IF names = <<>> THEN <<>>
  ELSE (IF Head(names) \in DOMAIN SkillFiles THEN <<Head(names)>> ELSE <<>>)
         \o Loadable(Tail(names))

\* C21: every handler runs to its end on a tool call whose arguments hold
\* no path or a path that is not a string, on an empty session id, on a
\* message without a text part, on a list that names a missing skill, an
\* unreadable skill file or a group that does not exist, and on a failing
\* analytics write: the call has the effect it has without the offending
\* input, and the names after it in the list are loaded
C21_HandlersReturnNormally ==
  /\ \A t \in ToolCalls, callID \in CallIds :
       (t.tool \in FILE_TOOLS /\ getFilePathFromArgs(t.args) = NotAString)
         => before(pendingFilePaths, t.tool, callID, t.args) = pendingFilePaths
  /\ \A t \in ToolResults, callID \in CallIds :
       t.sessionID = NoSessionId =>
         after(Store, pendingFilePaths, t.tool, t.sessionID, callID)
           = [st |-> Store, paths |-> pendingFilePaths]
  /\ \A m \in Messages :
       /\ ~Handled(m).st.thrown
       /\ m.sessionID = NoSessionId => Handled(m) = [st |-> Store, text |-> m.text]
       /\ (m.sessionID # NoSessionId /\ ~m.hasText)
            => Handled(m) = [st |-> getState(Store, m.sessionID), text |-> m.text]
  /\ \A s \in SessionIds : \A t \in TypedTriggerLists :
       LET st == getState(Store, s)
           r == Trigger(st, s, t.names, t.type)
       IN /\ ~r.thrown
          /\ r = Trigger(st, s, Loadable(Concatenation(t.names, config.groups)), t.type)
          /\ (config.analytics /\ ~diskWritable /\ r.pendingSkills # st.pendingSkills) =>
               /\ r.analyticsFile = analyticsFile
               /\ \E i \in DOMAIN r.log : r.log[i].message = "Failed to save analytics"
               /\ \A i \in DOMAIN r.pendingSkills[s] :
                    /\ r.pendingSkills[s][i].name \in Range(r.sessions[s].loadedSkills)
                    /\ s \in DOMAIN r.analytics
                    /\ r.pendingSkills[s][i].name \in DOMAIN r.analytics[s]
  /\ \A s \in SessionIds :
       s \notin DOMAIN event(Store, "session.deleted", s).sessions

\* session s exists and holds a loaded skill
HoldsSkill(s) == s \in DOMAIN sessions /\ Len(getAllLoadedSkills(Store, s)) > 0

\* C22: with persistAfterCompaction, the compacting handler on a session
\* that holds a loaded skill leaves loadedSkills and totalTokensUsed as
\* they are and sets initialSkillsInjected to false; in chatMessage mode the
\* text of the next message of the session begins with the always-loaded
\* block
C22_CompactionResetsFlag ==
  config.persistAfterCompaction =>
    \A s \in SessionIds : \A context \in PriorLists :
      HoldsSkill(s) =>
        LET r == compacting(Store, s, context) IN
        /\ r.st.sessions[s].loadedSkills = sessions[s].loadedSkills
        /\ r.st.sessions[s].totalTokensUsed = sessions[s].totalTokensUsed
        /\ ~r.st.sessions[s].initialSkillsInjected
        /\ (ChatMode /\ Len(initialFormattedContent) > 0) =>
             \A m \in TextMessages(s) :
               IsPrefix(initialFormattedContent,
                        chatMessage(r.st, m.sessionID, m.agent, m.hasText, m.text).text)

\* in chatMessage mode, with an always-loaded block, a session that a
\* trigger has queued skills for has been compacted
C22_Witness ==
  /\ ChatMode /\ config.persistAfterCompaction
  /\ Len(initialFormattedContent) > 0
  /\ produced.op = "experimental.session.compacting"
  /\ produced.sessionID \in DOMAIN sessions
  /\ ~sessions[produced.sessionID].initialSkillsInjected
  /\ \E n \in SkillNames : queuedTimes[produced.sessionID][n] > 0

\* the queue of session s after a step
PendingAfter(s) == IF s \in DOMAIN pendingSkills' THEN pendingSkills'[s] ELSE <<>>

\* the handlers that render for session s leave its queue empty: the
\* message handler in chatMessage mode, the transform handler otherwise
EmptyAfterRendering ==
  \A s \in SessionIds :
    /\ ChatMode =>
         \A m \in TextMessages(s) : getPendingSkills(Handled(m).st, s) = <<>>
    /\ ~ChatMode =>
         \A system \in PriorLists : getPendingSkills(systemPrompt(Store, s, system).st, s) = <<>>

\* the handlers that read the queue without rendering keep what it holds
ReadingKeepsQueue ==
  \A s \in SessionIds :
    /\ \A t \in ToolResults, callID \in CallIds :
         IsPrefix(getPendingSkills(Store, s),
                  getPendingSkills(after(Store, pendingFilePaths, t.tool, t.sessionID, callID).st, s))
    /\ \A context \in PriorLists, s2 \in SessionIds :
         getPendingSkills(compacting(Store, s2, context).st, s) = getPendingSkills(Store, s)
    /\ ~ChatMode =>
         \A m \in Messages : IsPrefix(getPendingSkills(Store, s), getPendingSkills(Handled(m).st, s))
    /\ \A m \in Messages :
         (m.sessionID # s \/ ~m.hasText) =>
           IsPrefix(getPendingSkills(Store, s), getPendingSkills(Handled(m).st, s))

\* a step that puts something into the queue of s has queued skills for s
FilledByQueueSkills ==
  \A s \in SessionIds :
    (PendingAfter(s) # <<>> /\ PendingAfter(s) # getPendingSkills(Store, s))
      => \E n \in SkillNames : queuedTimes'[s][n] > queuedTimes[s][n]

\* C23: the pending queue of a session is filled by queueSkills only, is
\* empty after every handler that renders for the session, and keeps its
\* content through every handler that only reads it
C23_PendingQueueDiscipline ==
  /\ [](EmptyAfterRendering /\ ReadingKeepsQueue)
  /\ [][FilledByQueueSkills]_vars

\* in systemPrompt mode the transform handler has rendered for a session
\* that skills were queued for, and the queue of the session is empty
C23_Witness ==
  /\ ~ChatMode
  /\ produced.op = "experimental.chat.system.transform"
  /\ produced.sessionID \notin DOMAIN pendingSkills
  /\ \E n \in SkillNames : queuedTimes[produced.sessionID][n] > 0

\* what the after handler does with the path filePath for session s
TriggeredBy(s, filePath) ==
  PathTrigger(ExtensionTrigger(getState(Store, s), s, filePath), s, filePath)

\* C24: the after handler of a file tool for call id c triggers with the
\* path the before handler stored for c and leaves no entry for c in the
\* call-id cache; without an entry for c it changes nothing; a tool that is
\* not a file tool stores no path and triggers nothing
C24_BeforeAfterPairing ==
  /\ \A t \in ToolCalls, callID \in CallIds :
       LET paths == before(pendingFilePaths, t.tool, callID, t.args) IN
       /\ t.tool \notin FILE_TOOLS => paths = pendingFilePaths
       /\ (t.tool \in FILE_TOOLS /\ getFilePathFromArgs(t.args) # NotAString
             /\ getFilePathFromArgs(t.args) # <<>>)
            => (callID \in DOMAIN paths /\ paths[callID] = getFilePathFromArgs(t.args))
  /\ \A t \in ToolResults, callID \in CallIds :
       LET r == after(Store, pendingFilePaths, t.tool, t.sessionID, callID) IN
       /\ t.tool \notin FILE_TOOLS => r = [st |-> Store, paths |-> pendingFilePaths]
       /\ t.tool \in FILE_TOOLS =>
            /\ callID \notin DOMAIN r.paths
            /\ callID \notin DOMAIN pendingFilePaths => r.st = Store
            /\ (callID \in DOMAIN pendingFilePaths /\ t.sessionID # NoSessionId)
                 => r.st = TriggeredBy(t.sessionID, pendingFilePaths[callID])

\* the call ids whose entry after a step is one that a before event of
\* session s stores
RecordedAfter(s) ==
  {c \in DOMAIN pendingFilePaths' :
     \E t \in ToolCalls :
       /\ t.sessionID = s
       /\ t.tool \in FILE_TOOLS
       /\ getFilePathFromArgs(t.args) = pendingFilePaths'[c]}

\* C25: when a session.deleted event has removed the state of session s,
\* the call-id cache holds no entry stored by a before event of s
C25_CacheEvictedOnCleanup ==
  [][\A s \in SessionIds :
       (s \in DOMAIN sessions /\ s \notin DOMAIN sessions') => RecordedAfter(s) = {}]_vars

\* C26: when persistAfterCompaction is off, or the session has no state,
\* or the session holds no loaded skill, the compacting handler leaves the
\* context list and the whole store as they are; it creates no session
\* state, writes no log entry and no analytics file
C26_CompactionNoOp ==
  \A s \in SessionIds : \A context \in PriorLists :
    ( \/ ~config.persistAfterCompaction
      \/ s \notin DOMAIN sessions
      \/ sessions[s].loadedSkills = <<>> )
      => compacting(Store, s, context) = [st |-> Store, out |-> context]

\* with persistAfterCompaction on, session s1 exists without a loaded
\* skill and session s2 has no state
C26_Witness ==
  /\ config.persistAfterCompaction
  /\ "s1" \in DOMAIN sessions
  /\ sessions["s1"].loadedSkills = <<>>
  /\ "s2" \notin DOMAIN sessions

\* the transform handler sets the flag of a session it appends a block for
RenderSetsFlag ==
  \A s \in SessionIds : \A system \in PriorLists :
    LET r == systemPrompt(Store, s, system) IN
    Len(r.out) > Len(system) => r.st.sessions[s].initialSkillsInjected

\* a step that takes the flag of a session from true to false is a
\* compaction of the session (a deletion removes the state)
FlagStaysTrue ==
  \A s \in DOMAIN sessions \cap DOMAIN sessions' :
    (sessions[s].initialSkillsInjected /\ ~sessions'[s].initialSkillsInjected)
      => (produced'.op = "experimental.session.compacting" /\ produced'.sessionID = s)

\* C27: in systemPrompt mode initialSkillsInjected of a session is true
\* after a render that appended a block for it, whatever skills the block
\* holds, and stays true until the session is compacted or deleted
C27_FlagSetByRender ==
  /\ [](~ChatMode => RenderSetsFlag)
  /\ [][~ChatMode => FlagStaysTrue]_vars

\* C28: while a session's state exists, no handler call takes a name out
\* of its loadedSkills or lowers its totalTokensUsed
C28_SessionMonotone ==
  [][\A s \in DOMAIN sessions \cap DOMAIN sessions' :
       /\ Range(sessions[s].loadedSkills) \subseteq Range(sessions'[s].loadedSkills)
       /\ sessions[s].totalTokensUsed <= sessions'[s].totalTokensUsed]_vars

\* a session that has loaded two skills through triggers has been
\* compacted and keeps its total
C28_Witness ==
  /\ produced.op = "experimental.session.compacting"
  /\ produced.sessionID \in DOMAIN sessions
  /\ Len(sessions[produced.sessionID].loadedSkills) >= 2
  /\ sessions[produced.sessionID].totalTokensUsed >= 3
  /\ Cardinality({n \in SkillNames : queuedTimes[produced.sessionID][n] > 0}) >= 2

\* the names of a list whose skill the session has not loaded yet
RECURSIVE NewNames(_, _)
NewNames(names, loaded) ==
  IF names = <<>> THEN <<>>
  ELSE (IF loadSkill(Head(names)).name \in Range(loaded) THEN <<>> ELSE <<Head(names)>>)
         \o NewNames(Tail(names), loaded)

\* C29: a trigger queues for a session the skills it would queue if the
\* names the session has already loaded were taken out of the list first
C29_LoadedSkillsCostNothing ==
  \A s \in SessionIds : \A t \in TypedTriggerLists :
    LET st == getState(Store, s)
        names == Loadable(Concatenation(t.names, config.groups))
        r == Trigger(st, s, t.names, t.type)
        expected == Trigger(st, s, NewNames(names, st.sessions[s].loadedSkills), t.type)
    IN /\ getPendingSkills(r, s) = getPendingSkills(expected, s)
       /\ r.sessions[s] = expected.sessions[s]

\* the skills a trigger list loads for session s
LoadedBy(s, t) ==
  loadWithBudget(t.names, getState(Store, s).sessions[s].totalTokensUsed)

WritesSucceed == config.analytics /\ diskWritable

\* C31: with analytics enabled and writes succeeding, the analytics file
\* holds the in-memory analytics map once it has been written, after
\* every trigger that recorded a usage, and after every cleanup; the
\* file written by the cleanup of session s has no entry for s and keeps
\* the entry of every other session
C31_AnalyticsFileFollowsMap ==
  WritesSucceed =>
    /\ analyticsFile # NoFile => analyticsFile = analytics
    /\ \A s \in SessionIds : \A t \in TypedTriggerLists :
         LET r == Trigger(getState(Store, s), s, t.names, t.type) IN
         r.analytics # analytics => r.analyticsFile = r.analytics
    /\ \A s \in SessionIds :
         LET r == event(Store, "session.deleted", s) IN
         /\ r.analyticsFile = r.analytics
         /\ s \notin DOMAIN r.analyticsFile
         /\ \A other \in (DOMAIN analytics) \ {s} :
              /\ other \in DOMAIN r.analyticsFile
              /\ r.analyticsFile[other] = analytics[other]

\* usages of both sessions are recorded and on file, and the last event
\* deleted nothing of them
C31_Witness ==
  /\ WritesSucceed
  /\ DOMAIN analytics = SessionIds
  /\ analyticsFile = analytics
  /\ \E n \in DOMAIN analytics["s1"] : analytics["s1"][n].loadCount = 1

\* whether a name of a request names a group of the map
NamesGroup(name, groups) ==
  name \in DOMAIN AtNames /\ \E i \in DOMAIN groups : groups[i].key = AtNames[name]

\* the members of the groups that a request names
MembersOf(names, groups) ==
  UNION {Range(Expansion(names[i], groups)) : i \in {j \in DOMAIN names : NamesGroup(names[j], groups)}}

\* C32: resolveSkillGroups returns, for every request and every group map,
\* the names of the request that name no group of the map (with or
\* without @), unaltered, and the members of the groups the request
\* names, a member beginning with @ unexpanded; and nothing else
C32_ExpansionOneLevelTotal ==
  applied.fn = "resolveSkillGroups" =>
    LET names == applied.args[1]
        groups == applied.args[2]
    IN Range(returned) =
         {names[i] : i \in {j \in DOMAIN names : ~NamesGroup(names[j], groups)}}
           \cup MembersOf(names, groups)

\* messages with an empty session id or without a text part
Unhandled == {m \in Messages : m.sessionID = NoSessionId \/ ~m.hasText}

\* the handler leaves the text, the pending queues, the analytics, the
\* skill cache and the existing session states as they are, and logs
\* nothing (no trigger queued a skill, nothing was injected)
LeavesAlone(m) ==
  LET r == Handled(m) IN
  /\ r.text = m.text
  /\ r.st.pendingSkills = pendingSkills
  /\ r.st.analytics = analytics
  /\ r.st.analyticsFile = analyticsFile
  /\ r.st.skillCache = skillCache
  /\ r.st.log = <<>>
  /\ \A s \in DOMAIN sessions : s \in DOMAIN r.st.sessions /\ r.st.sessions[s] = sessions[s]
  /\ \A s \in (DOMAIN r.st.sessions) \ DOMAIN sessions : ~r.st.sessions[s].initialSkillsInjected

\* in chatMessage mode a message with a text part that follows m renders
\* the queue that was pending when m came, and empties it
StillInjected(m) ==
  (ChatMode /\ m.sessionID # NoSessionId) =>
    \A next \in TextMessages(m.sessionID) :
      LET r == chatMessage(Handled(m).st, next.sessionID, next.agent, next.hasText, next.text) IN
      /\ \A i \in DOMAIN getPendingSkills(Store, m.sessionID) :
           getPendingSkills(Store, m.sessionID)[i].content \in Range(r.text)
      /\ m.sessionID \notin DOMAIN r.st.pendingSkills

\* C33 as stated: a message with an empty session id or without a text
\* part changes nothing observable: the store is as before, so a
\* compaction that follows adds to the context what it would have added
\* without the message; the queue is still injected into the next message
C33_UnhandledMessageChangesNothing ==
  \A m \in Unhandled :
    /\ LeavesAlone(m)
    /\ StillInjected(m)
    /\ Handled(m).st = Store
    /\ \A s \in SessionIds : \A context \in PriorLists :
         compacting(Handled(m).st, s, context).out = compacting(Store, s, context).out

\* C33 amended: the same, except that a message with a session id and
\* without a text part creates the state of a session that has none
C33_UnhandledMessageOnlyCreatesState ==
  \A m \in Unhandled :
    /\ LeavesAlone(m)
    /\ StillInjected(m)
    /\ m.sessionID = NoSessionId => Handled(m).st = Store
    /\ m.sessionID # NoSessionId => Handled(m).st = getState(Store, m.sessionID)

\* in chatMessage mode skills that a tool call queued for session s1 are
\* pending, and the always-loaded block has not been injected
C33_Witness ==
  /\ ChatMode
  /\ Len(initialFormattedContent) > 0
  /\ "s1" \in DOMAIN pendingSkills
  /\ Len(pendingSkills["s1"]) > 0
  /\ owed["s1"] # {}
  /\ ~sessions["s1"].initialSkillsInjected

\* C34: the pending queue of a session holds no skill name twice and
\* only skills whose names are in the session's loadedSkills, and only a
\* session that has state has a pending queue
C34_PendingQueueWellFormed ==
  \A s \in DOMAIN pendingSkills :
    /\ s \in DOMAIN sessions
    /\ \A i \in DOMAIN pendingSkills[s] :
         pendingSkills[s][i].name \in Range(sessions[s].loadedSkills)
    /\ \A i, j \in DOMAIN pendingSkills[s] :
         i # j => pendingSkills[s][i].name # pendingSkills[s][j].name

\* createLoadedSkillsTool.execute for a session: the total that
\* formatSkillTable sums from the skill list and the figure reported as
\* used from the session state
loadedSkillsTool(st0, sessionID) ==
  LET st == getState(st0, sessionID) IN
  [ totalTokens |-> SumTokens(getAllLoadedSkills(st, sessionID)),
    used |-> st.sessions[sessionID].totalTokensUsed ]

\* C35: the totalTokensUsed of every session is the sum of the token
\* counts of the skills in its loaded set, and the loaded_skills tool
\* reports the same number as the total of its list and as used
C35_TotalIsSumOfLoaded ==
  /\ \A s \in DOMAIN sessions :
       sessions[s].totalTokensUsed = SumTokens(getAllLoadedSkills(Store, s))
  /\ \A s \in SessionIds :
       loadedSkillsTool(Store, s).totalTokens = loadedSkillsTool(Store, s).used

\* what a store holds of session s: its state and its pending queue
View(st, s) ==
  [ state |-> IF s \in DOMAIN st.sessions THEN <<st.sessions[s]>> ELSE <<>>,
    pending |-> IF s \in DOMAIN st.pendingSkills THEN <<st.pendingSkills[s]>> ELSE <<>> ]

Only(map, s) == [x \in (DOMAIN map) \cap {s} |-> map[x]]

\* the store as it would be had only the events of session s run: no
\* other session has state, queue or analytics, and the cache holds the
\* always-loaded skills and the skills of s
Alone(s) ==
  [Store EXCEPT !.sessions = Only(@, s),
                !.pendingSkills = Only(@, s),
                !.analytics = Only(@, s),
                !.skillCache = cacheSkills(cacheSkills(EmptyMap, initialSkills),
                                           getAllLoadedSkills(Store, s))]

\* the stores that the handlers yield for the events of session a
AfterEventsOf(st, a) ==
  {chatMessage(st, m.sessionID, m.agent, m.hasText, m.text).st : m \in {x \in Messages : x.sessionID = a}}
  \cup {systemPrompt(st, a, system).st : system \in PriorLists}
  \cup {after(st, pendingFilePaths, t.tool, t.sessionID, callID).st :
          t \in {x \in ToolResults : x.sessionID = a}, callID \in CallIds}
  \cup {compacting(st, a, context).st : context \in PriorLists}
  \cup {event(st, e.type, e.sessionID) : e \in {x \in Events : x.sessionID = a}}

\* C36: an event for session a leaves the state and the pending queue of
\* every other session b as they are, and what an event for b makes of b
\* does not depend on what the store holds of other sessions; so the
\* state of b after interleaved events is its state after its own events
C36_SessionIsolation ==
  \A a \in SessionIds : \A b \in SessionIds \ {a} : \A alone \in {Alone(b)} :
    /\ \A r \in AfterEventsOf(Store, a) : View(r, b) = View(Store, b)
    /\ \A m \in {x \in Messages : x.sessionID = b} :
         \A r \in {chatMessage(Store, m.sessionID, m.agent, m.hasText, m.text).st},
            q \in {chatMessage(alone, m.sessionID, m.agent, m.hasText, m.text).st} :
           View(r, b) = View(q, b)
    /\ \A system \in PriorLists :
         \A r \in {systemPrompt(Store, b, system).st}, q \in {systemPrompt(alone, b, system).st} :
           View(r, b) = View(q, b)
    /\ \A t \in {x \in ToolResults : x.sessionID = b}, callID \in CallIds :
         \A r \in {after(Store, pendingFilePaths, t.tool, t.sessionID, callID).st},
            q \in {after(alone, pendingFilePaths, t.tool, t.sessionID, callID).st} :
           View(r, b) = View(q, b)
    /\ \A context \in PriorLists :
         \A r \in {compacting(Store, b, context).st}, q \in {compacting(alone, b, context).st} :
           View(r, b) = View(q, b)
    /\ \A e \in {x \in Events : x.sessionID = b} :
         \A r \in {event(Store, e.type, e.sessionID)}, q \in {event(alone, e.type, e.sessionID)} :
           View(r, b) = View(q, b)

\* both sessions have state and a pending queue, with different loaded sets
C36_Witness ==
  /\ DOMAIN pendingSkills = SessionIds
  /\ sessions["s1"].loadedSkills # sessions["s2"].loadedSkills
  /\ pendingSkills["s1"] # pendingSkills["s2"]
  /\ pendingFilePaths # EmptyMap

\* what the transform handler appends to the list for session s, as one text
Appended(s, system) == Flatten(Drop(systemPrompt(Store, s, system).out, Len(system)))

\* C37: in systemPrompt mode the names of the skills in the block that a
\* render appends for session s are the names of the session's
\* loadedSkills; every loaded name is in the skill cache, and the
\* always-loaded skills and the pending queue hold no other name
C37_RenderedNamesAreLoadedSet ==
  ~ChatMode =>
    \A s \in SessionIds : \A system \in PriorLists :
      LET st == getState(Store, s)
          loaded == Range(st.sessions[s].loadedSkills)
      IN /\ ElementNames(Appended(s, system)) = loaded
         /\ loaded \subseteq DOMAIN st.skillCache
         /\ Range(Names(initialSkills)) \subseteq loaded
         /\ Range(Names(getPendingSkills(st, s))) \subseteq loaded

\* a render has appended a block with two or more names, one of them
\* queued by a trigger, for a session whose queue it has emptied
C37_Witness ==
  /\ ~ChatMode
  /\ produced.op = "experimental.chat.system.transform"
  /\ Cardinality(ElementNames(produced.added)) >= 2
  /\ ElementNames(produced.added) = Range(sessions[produced.sessionID].loadedSkills)
  /\ \E n \in SkillNames : queuedTimes[produced.sessionID][n] > 0
  /\ produced.sessionID \notin DOMAIN pendingSkills

\* the names of the triggered skills that session s has consumed from its
\* pending queue: queued since the state was created, not always-loaded,
\* and no longer pending
Consumed(s) ==
  {n \in SkillNames :
     /\ queuedTimes[s][n] > 0
     /\ n \notin Range(initialSkillNames)
     /\ n \notin Range(Names(getPendingSkills(Store, s)))}

\* C38: in chatMessage mode no step queues a triggered skill again that
\* the session has consumed from its pending queue, or renders it into a
\* message again, whether or not a compaction has reset the flag in
\* between; a deletion of the session starts the count anew
C38_TriggeredRenderedOnce ==
  [][ChatMode =>
       \A s \in SessionIds : \A n \in Consumed(s) :
         s \in DOMAIN sessions' =>
           /\ s \notin DOMAIN pendingSkills' \/ n \notin Range(Names(pendingSkills'[s]))
           /\ queuedTimes'[s][n] = queuedTimes[s][n]
           /\ (produced'.op = "chat.message" /\ produced'.sessionID = s)
                => n \notin ElementNames(produced'.added)]_vars

\* in chatMessage mode a message has been given the always-loaded block
\* alone although the session had consumed a triggered skill before: the
\* flag was reset by a compaction after the skill was rendered
C38_Witness ==
  /\ ChatMode
  /\ produced.op = "chat.message"
  /\ produced.added = initialFormattedContent \o Separator
  /\ Len(initialFormattedContent) > 0
  /\ Consumed(produced.sessionID) # {}

====
